---- MODULE Spec2Model ----
(***************************************************************************)
(* TILBlog: the ingestion pipeline of app.py (build_database), the store   *)
(* it writes through sqlite3 (til.db), and the file watcher that triggers  *)
(* rebuilds (MarkdownHandler, start_file_watcher, __main__).               *)
(*                                                                         *)
(* Text is modelled as a sequence of one-character strings, so that        *)
(* strip(), lower(), re.sub() and ','.join() are computed character by     *)
(* character.                                                              *)
(***************************************************************************)
EXTENDS Integers, Sequences, FiniteSets, TLC

VARIABLES
    fs,              \* content/**/*.md : path -> parsed source file
    content_exists,  \* (root_dir / "content").exists()
    db,              \* til.db as committed: what any other connection reads
    pc,              \* position of the running build_database call
    ddl_i,           \* index of the next DROP/CREATE statement
    tx,              \* the builder connection's open transaction
    all_files,       \* build_database: all_files
    idx,             \* build_database: position of the per-file loop
    failed,          \* files whose processing took the except branch
    outcome,         \* how the last build_database call returned
    prev,            \* til.db as it was when the running/last call began
    seen,            \* committed states of til.db visible during the call
    dirty,           \* a source file changed since the last call began
    unchanged,       \* the running/last call began on unchanged sources
    edits,           \* number of source edits so far
    db_file,         \* os.path.exists(root / DATABASE)
    now,             \* time.time()
    queue,           \* watchdog's event queue of the observer thread
    last_rebuild,    \* MarkdownHandler.last_rebuild
    w_pc,            \* observer thread: position in on_modified
    w_now,           \* on_modified: local now
    m_pc,            \* main thread: position in __main__
    unserved,        \* a .md event was queued after the last rebuild call
    events,          \* number of filesystem events so far
    burst,           \* the .md events so far and the callbacks they caused
    r_pc,            \* rebuild_database.py: position in main()
    exit_code,       \* rebuild_database.py: value returned by main()
    link_text,       \* the page name inside a [[...]] link
    link_html,       \* convert_wikilinks("[[" + link_text + "]]")
    entry_slug,      \* the slug build_database derives for that title
    request,         \* the HTTP request being served
    response,        \* what the route returned for it
    row_page,        \* a page of entries rows handed to the preview code
    processed_entries, \* the processed_entries list computed from row_page
    environment,     \* til_deploy.py: what the working directory holds
    d_pc,            \* til_deploy.py: position in main()
    steps,           \* til_deploy.py: the steps run so far, with their results
    deploy_code      \* til_deploy.py: value returned by main()

ingestVars == <<fs, content_exists, db, pc, ddl_i, tx, all_files, idx, failed,
                outcome, prev, seen, dirty, unchanged, edits, db_file>>
watchVars == <<now, queue, last_rebuild, w_pc, w_now, m_pc, unserved,
               events, burst>>
scriptVars == <<r_pc, exit_code>>
linkVars == <<link_text, link_html, entry_slug>>
requestVars == <<request, response>>
previewVars == <<row_page, processed_entries>>
deployVars == <<environment, d_pc, steps, deploy_code>>
toolVars == <<previewVars, deployVars>>
pageVars == <<linkVars, requestVars, toolVars>>
vars == <<ingestVars, watchVars, scriptVars, pageVars>>

(***************************************************************************)
(* Bounds of the model                                                     *)
(***************************************************************************)
MaxEdits == 1
MaxTime == 6
MaxEvents == 3
MaxName == 5

(***************************************************************************)
(* Characters and the str methods build_database uses                      *)
(***************************************************************************)
ToLower == ("A" :> "a") @@ ("B" :> "b") @@ ("N" :> "n") @@ ("T" :> "t")
ToUpper == ("a" :> "A") @@ ("b" :> "B") @@ ("n" :> "N") @@ ("t" :> "T")
           @@ ("x" :> "X") @@ ("y" :> "Y")
Digits == {"0", "1", "2", "3", "4", "5", "6", "7", "8", "9"}

IsLetter(c) == c \in DOMAIN ToLower \/ c \in DOMAIN ToUpper
\* \w of the re module
IsWordChar(c) == IsLetter(c) \/ c \in Digits \/ c = "_"
\* \s of the re module, and what str.strip() removes
IsSpaceChar(c) == c \in {" ", "\t", "\n"}

LowerChar(c) == IF c \in DOMAIN ToLower THEN ToLower[c] ELSE c
UpperChar(c) == IF c \in DOMAIN ToUpper THEN ToUpper[c] ELSE c

\* str.lower()
Lower(s) == [i \in 1..Len(s) |-> LowerChar(s[i])]

\* str.title(): a letter is upper-cased after a non-letter, lower-cased after
\* a letter
TitleCase(s) ==
    [i \in 1..Len(s) |->
        IF i = 1 \/ ~IsLetter(s[i - 1]) THEN UpperChar(s[i]) ELSE LowerChar(s[i])]

\* str.replace(old, new) for one-character old and new
Replace(s, old, new) == [i \in 1..Len(s) |-> IF s[i] = old THEN new ELSE s[i]]

RECURSIVE LStrip(_, _)
LStrip(s, cs) ==
    IF s # <<>> /\ Head(s) \in cs THEN LStrip(Tail(s), cs) ELSE s

RECURSIVE RStrip(_, _)
RStrip(s, cs) ==
    IF s # <<>> /\ s[Len(s)] \in cs THEN RStrip(SubSeq(s, 1, Len(s) - 1), cs) ELSE s

Whitespace == {" ", "\t", "\n"}

\* str.strip()
Strip(s) == RStrip(LStrip(s, Whitespace), Whitespace)

\* str.strip('-')
StripHyphens(s) == RStrip(LStrip(s, {"-"}), {"-"})

\* str.startswith(prefix)
StartsWith(s, prefix) ==
    Len(s) >= Len(prefix) /\ SubSeq(s, 1, Len(prefix)) = prefix

\* sep.join(parts)
RECURSIVE Join(_, _)
Join(parts, sep) ==
    IF parts = <<>> THEN <<>>
    ELSE IF Len(parts) = 1 THEN parts[1]
    ELSE parts[1] \o sep \o Join(Tail(parts), sep)

Range(q) == {q[i] : i \in DOMAIN q}

(***************************************************************************)
(* Metadata normalisation of build_database                                *)
(***************************************************************************)
\* re.sub(r'[^\w\s-]', '', s)
KeepSlugChar(c) == IsWordChar(c) \/ IsSpaceChar(c) \/ c = "-"
RemoveSpecial(s) == SelectSeq(s, KeepSlugChar)

\* re.sub(r'[\s_]+', '-', s)
IsSeparator(c) == IsSpaceChar(c) \/ c = "_"
RECURSIVE HyphenateRuns(_)
HyphenateRuns(s) ==
    IF s = <<>> THEN <<>>
    ELSE IF IsSeparator(Head(s))
         THEN <<"-">> \o HyphenateRuns(LStrip(Tail(s), Whitespace \cup {"_"}))
         ELSE <<Head(s)>> \o HyphenateRuns(Tail(s))

\* slug derived from the resolved title
DeriveSlug(title) == StripHyphens(HyphenateRuns(RemoveSpecial(Lower(title))))

\* content.strip().splitlines(), the body being held as its lines
IsBlank(line) == \A i \in 1..Len(line) : IsSpaceChar(line[i])
RECURSIVE DropBlankHead(_)
DropBlankHead(lines) ==
    IF lines # <<>> /\ IsBlank(Head(lines)) THEN DropBlankHead(Tail(lines)) ELSE lines
RECURSIVE DropBlankTail(_)
DropBlankTail(lines) ==
    IF lines # <<>> /\ IsBlank(lines[Len(lines)])
    THEN DropBlankTail(SubSeq(lines, 1, Len(lines) - 1)) ELSE lines
StrippedLines(body) ==
    LET ls == DropBlankTail(DropBlankHead(body))
        n == Len(ls)
    IN  [i \in 1..n |->
            LET l1 == IF i = 1 THEN LStrip(ls[i], Whitespace) ELSE ls[i]
            IN  IF i = n THEN RStrip(l1, Whitespace) ELSE l1]

\* the for loop over lines: the first line starting with '# ' decides
HeadingPrefix == <<"#", " ">>
RECURSIVE FirstHeading(_)
FirstHeading(lines) ==
    IF lines = <<>> THEN <<>>
    ELSE IF StartsWith(Head(lines), HeadingPrefix)
         THEN Strip(SubSeq(Head(lines), 3, Len(Head(lines))))
         ELSE FirstHeading(Tail(lines))

\* filepath.stem.replace('-', ' ').replace('_', ' ').title()
StemTitle(stem) == TitleCase(Replace(Replace(stem, "-", " "), "_", " "))

\* variant: the first heading wins over the front matter title
ResolveTitleHeadingFirst(fm_title, body, stem) ==
    LET h == FirstHeading(StrippedLines(body))
    IN  IF h # <<>> THEN h
        ELSE IF fm_title # <<>> THEN fm_title ELSE StemTitle(stem)

\* title: front matter, else first heading, else file name
ResolveTitle(fm_title, body, stem) ==
    IF fm_title # <<>> THEN fm_title
    ELSE LET h == FirstHeading(StrippedLines(body))
         IN  IF h # <<>> THEN h ELSE StemTitle(stem)

\* slug: front matter, else derived from the title
ResolveSlug(fm_slug, title) == IF fm_slug # <<>> THEN fm_slug ELSE DeriveSlug(title)

\* front_matter.get('topics', []) and the isinstance(topics, str) wrap; the
\* value None (a 'topics:' key with no value) stays None
ResolveTopics(t) ==
    CASE t.kind = "absent" -> <<>>
      [] t.kind = "str" -> <<t.val[1]>>
      [] t.kind = "list" -> t.val
      [] OTHER -> <<>>

\* ','.join(topics) raises TypeError when topics is None
JoinRaises(t) == t.kind = "null"

\* topics_raw as stored by the INSERT INTO entries
TopicsRaw(t) == Join(ResolveTopics(t), <<",">>)

(***************************************************************************)
(* convert_wikilinks(content): [[Page Name]] becomes an anchor.  The fixed *)
(* markup of the anchor is held as whole pieces of text.                   *)
(***************************************************************************)
\* os.environ.get('TIL_BASE_URL', ''): empty for the local server
BaseUrl == <<>>

\* re.sub(r'[^\w\-]', '', slug)
KeepLinkChar(c) == IsWordChar(c) \/ c = "-"

\* replace_link: link_text.lower().replace(' ', '-').replace('_', '-'), then
\* the special characters removed
LinkSlug(text) ==
    SelectSeq(Replace(Replace(Lower(text), " ", "-"), "_", "-"), KeepLinkChar)

HrefOpen == <<"<a href=\"">> \o BaseUrl \o <<"/note/">>
HrefClose == <<"/\" class=\"wiki-link\">">>

\* replace_link(match)
Anchor(text) == HrefOpen \o LinkSlug(text) \o HrefClose \o text \o <<"</a>">>

\* the number of characters from position j on that are not ']'
RunLength(t, j) ==
    (CHOOSE k \in j..(Len(t) + 1) :
        /\ k = Len(t) + 1 \/ t[k] = "]"
        /\ \A m \in j..(k - 1) : t[m] # "]") - j

\* r'\[\[([^\]]+)\]\]' matches at position i
LinkAt(t, i) ==
    /\ i + 4 <= Len(t)
    /\ t[i] = "[" /\ t[i + 1] = "["
    /\ LET n == RunLength(t, i + 2)
       IN  /\ n >= 1
           /\ i + n + 3 <= Len(t)
           /\ t[i + n + 2] = "]" /\ t[i + n + 3] = "]"

\* re.sub(pattern, replace_link, content): the leftmost match, then the rest
RECURSIVE ConvertWikilinks(_)
ConvertWikilinks(t) ==
    IF ~\E i \in 1..Len(t) : LinkAt(t, i) THEN t
    ELSE LET i == CHOOSE i \in 1..Len(t) :
                      LinkAt(t, i) /\ \A j \in 1..(i - 1) : ~LinkAt(t, j)
             n == RunLength(t, i + 2)
         IN  SubSeq(t, 1, i - 1)
             \o Anchor(SubSeq(t, i + 2, i + n + 1))
             \o ConvertWikilinks(SubSeq(t, i + n + 4, Len(t)))

\* the text of a body held as its lines
Text(body) == Join(body, <<"\n">>)

\* markdown(content_with_links, ...): nothing for a blank text; the other
\* texts are followed as one paragraph, whatever blocks they hold
Markdown(text) ==
    IF Strip(text) = <<>> THEN <<>> ELSE <<"<p>">> \o Strip(text) \o <<"</p>">>

\* html = markdown(convert_wikilinks(content), ...)
RenderHtml(body) == Markdown(ConvertWikilinks(Text(body)))

(***************************************************************************)
(* Source files: the result of frontmatter.load on a file of content/      *)
(***************************************************************************)
Paths == {"n-a.md", "n_b.md"}

\* the files of a larger content directory, s1.md to s8.md
ShelfNo ==
    ("s1.md" :> "1") @@ ("s2.md" :> "2") @@ ("s3.md" :> "3") @@ ("s4.md" :> "4")
    @@ ("s5.md" :> "5") @@ ("s6.md" :> "6") @@ ("s7.md" :> "7") @@ ("s8.md" :> "8")
ShelfPaths == DOMAIN ShelfNo

\* filepath.stem
Stem(p) ==
    IF p = "n-a.md" THEN <<"n", "-", "a">>
    ELSE IF p = "n_b.md" THEN <<"n", "_", "b">>
    ELSE <<"s", ShelfNo[p]>>

\* a front matter value of the keys created, date, modified, updated: absent,
\* a YAML timestamp (datetime.datetime) of a day and an hour, a YAML date
\* (datetime.date) of a day, or a string
FmAbsent == [kind |-> "absent", val |-> <<>>]
FmDateTime(day, hour) == [kind |-> "datetime", val |-> <<day, hour>>]
FmDate(day) == [kind |-> "date", val |-> <<day>>]
FmStr(text) == [kind |-> "str", val |-> text]

Src(ok, title, slug, kind, topics, body) ==
    [ok |-> ok, title |-> title, slug |-> slug,
     topics |-> [kind |-> kind, val |-> topics], body |-> body,
     created |-> FmAbsent, date |-> FmAbsent,
     modified |-> FmAbsent, updated |-> FmAbsent]

\* a file whose open() or frontmatter.load raises
SrcBroken == Src(FALSE, <<>>, <<>>, "absent", <<>>, <<>>)
\* title and a list of topics in the front matter
\* created and date are both given
SrcPlain ==
    [Src(TRUE, <<"A", "b">>, <<>>, "list", << <<"x">>, <<"y">> >>, << <<"t">> >>)
        EXCEPT !.created = FmDateTime("4", "1"), !.date = FmDate("5")]
\* another document whose title normalises to the slug of SrcPlain
\* date only, on the day the file was last modified
SrcTwin ==
    [Src(TRUE, <<"a", "b", "!">>, <<>>, "list", << <<"y">> >>, << <<"n">> >>)
        EXCEPT !.date = FmDate("2"), !.modified = FmDate("2")]
\* title from a heading; topics padded, empty and repeated
\* created as free text, updated as a timestamp
SrcMessy ==
    [Src(TRUE, <<>>, <<>>, "list", << <<" ", "x">>, <<>>, <<"x">> >>,
         << <<"#", " ", "A", " ", "b">>, <<"t">> >>)
        EXCEPT !.created = FmStr(<<"n", "a">>), !.updated = FmDateTime("5", "2")]
\* no title, no heading; a single topic given as a bare string
\* 'created:' with an empty string, no date
SrcBare ==
    [Src(TRUE, <<>>, <<>>, "str", << <<"y">> >>, << <<"b">> >>)
        EXCEPT !.created = FmStr(<<>>)]
\* explicit slug, no topics key
\* a title and a heading; 'date:' with an empty string, no created
SrcSlug ==
    [Src(TRUE, <<"B">>, <<"a", "b">>, "absent", <<>>, << <<"#", " ", "a">> >>)
        EXCEPT !.date = FmStr(<<>>)]
\* 'topics:' with no value
SrcNull == Src(TRUE, <<"N">>, <<>>, "null", <<>>, << <<"n">> >>)

\* a plain Markdown file: no front matter block, a heading
SrcNoFront == Src(TRUE, <<>>, <<>>, "absent", <<>>, << <<"#", " ", "T">> >>)

\* a title of punctuation only and a slug written as a phrase
SrcPhrase == Src(TRUE, <<"!">>, <<"A", " ", "b">>, "list", << <<"x">> >>, << <<"t">> >>)

Contents ==
    {SrcBroken, SrcPlain, SrcTwin, SrcMessy, SrcBare, SrcSlug, SrcNull,
     SrcNoFront, SrcPhrase}

\* filepath.stat(): day and hour of st_birthtime (empty where the platform
\* has no such attribute), st_ctime and st_mtime
FileStat(p) ==
    IF p = "n-a.md"
    THEN [st_birthtime |-> <<"1", "1">>, st_ctime |-> <<"2", "1">>,
          st_mtime |-> <<"2", "1">>]
    ELSE IF p = "n_b.md"
    THEN [st_birthtime |-> <<>>, st_ctime |-> <<"3", "2">>,
          st_mtime |-> <<"3", "2">>]
    ELSE [st_birthtime |-> <<>>, st_ctime |-> <<ShelfNo[p], "1">>,
          st_mtime |-> <<ShelfNo[p], "1">>]

\* time.strftime("%Y-%m-%d %H:%M:%S", ...) and datetime.strftime of the same
\* format, for a day and an hour of January 2024
Strftime(t) ==
    <<"2", "0", "2", "4", "-", "0", "1", "-", "0", t[1], " ",
      "0", t[2], ":", "0", "0", ":", "0", "0">>

\* str(v) of a front matter value that is not a datetime.datetime
StrOf(v) ==
    IF v.kind = "date" THEN SubSeq(Strftime(<<v.val[1], "0">>), 1, 10) ELSE v.val

\* bool(v)
Truthy(v) == v.kind \in {"datetime", "date"} \/ (v.kind = "str" /\ v.val # <<>>)

\* a or b
OrElse(a, b) == IF Truthy(a) THEN a ELSE b

\* the SQL NULL bound for a Python None
Null == <<"NULL">>

\* the strftime / str branch taken for a truthy front matter date
DateText(v) == IF v.kind = "datetime" THEN Strftime(v.val) ELSE StrOf(v)

\* created_fs: st_birthtime, st_ctime on AttributeError
CreatedFs(p) ==
    IF FileStat(p).st_birthtime # <<>> THEN Strftime(FileStat(p).st_birthtime)
    ELSE Strftime(FileStat(p).st_ctime)

\* modified_fs: st_mtime unless the front matter has modified or updated
ModifiedFs(p, c) ==
    LET modified_fm == OrElse(c.modified, c.updated)
    IN  IF Truthy(modified_fm) THEN DateText(modified_fm)
        ELSE Strftime(FileStat(p).st_mtime)

\* created_fm = front_matter.get('created') or front_matter.get('date'),
\* formatted when truthy, else bound as it is (None, or an empty string)
CreatedFm(c) ==
    LET created_fm == OrElse(c.created, c.date)
    IN  IF Truthy(created_fm) THEN DateText(created_fm)
        ELSE IF created_fm.kind = "absent" THEN Null ELSE created_fm.val

\* the normalised record build_database computes for file p holding c
Normalize(p, c) ==
    LET title == ResolveTitle(c.title, c.body, Stem(p))
    IN  [title |-> title,
         slug |-> ResolveSlug(c.slug, title),
         content |-> c.body,
         html |-> RenderHtml(c.body),
         topics |-> ResolveTopics(c.topics),
         created_fs |-> CreatedFs(p),
         modified_fs |-> ModifiedFs(p, c),
         created_fm |-> CreatedFm(c),
         topics_raw |-> TopicsRaw(c.topics)]

\* the statements before the INSERT raise for this file
PrepareRaises(c) == ~c.ok \/ JoinRaises(c.topics)

(***************************************************************************)
(* The store: the tables of til.db                                         *)
(***************************************************************************)
Tables == {"entries", "topics", "entry_topics", "entry_fts"}

\* a database file with no table
EmptyStore ==
    [tables |-> {}, entries |-> <<>>, topics |-> <<>>, entry_topics |-> <<>>,
     entry_fts |-> <<>>]

\* variant: entry_topics is created if missing and never dropped
DdlStatementsKeepLinks ==
    << [op |-> "drop", table |-> "entries", if_not_exists |-> FALSE],
       [op |-> "drop", table |-> "topics", if_not_exists |-> FALSE],
       [op |-> "drop", table |-> "entry_fts", if_not_exists |-> FALSE],
       [op |-> "create", table |-> "entries", if_not_exists |-> FALSE],
       [op |-> "create", table |-> "topics", if_not_exists |-> FALSE],
       [op |-> "create", table |-> "entry_topics", if_not_exists |-> TRUE],
       [op |-> "create", table |-> "entry_fts", if_not_exists |-> FALSE] >>

\* variant: topics is created if missing and never dropped
DdlStatementsKeepTopics ==
    << [op |-> "drop", table |-> "entries", if_not_exists |-> FALSE],
       [op |-> "drop", table |-> "entry_topics", if_not_exists |-> FALSE],
       [op |-> "drop", table |-> "entry_fts", if_not_exists |-> FALSE],
       [op |-> "create", table |-> "entries", if_not_exists |-> FALSE],
       [op |-> "create", table |-> "topics", if_not_exists |-> TRUE],
       [op |-> "create", table |-> "entry_topics", if_not_exists |-> FALSE],
       [op |-> "create", table |-> "entry_fts", if_not_exists |-> FALSE] >>

\* variant: entry_fts is dropped here and created only where it is filled
DdlStatementsLateFts ==
    << [op |-> "drop", table |-> "entries", if_not_exists |-> FALSE],
       [op |-> "drop", table |-> "topics", if_not_exists |-> FALSE],
       [op |-> "drop", table |-> "entry_topics", if_not_exists |-> FALSE],
       [op |-> "drop", table |-> "entry_fts", if_not_exists |-> FALSE],
       [op |-> "create", table |-> "entries", if_not_exists |-> FALSE],
       [op |-> "create", table |-> "topics", if_not_exists |-> FALSE],
       [op |-> "create", table |-> "entry_topics", if_not_exists |-> FALSE] >>

\* the DROP TABLE IF EXISTS and CREATE statements, in the order executed
DdlStatements ==
    << [op |-> "drop", table |-> "entries", if_not_exists |-> FALSE],
       [op |-> "drop", table |-> "topics", if_not_exists |-> FALSE],
       [op |-> "drop", table |-> "entry_topics", if_not_exists |-> FALSE],
       [op |-> "drop", table |-> "entry_fts", if_not_exists |-> FALSE],
       [op |-> "create", table |-> "entries", if_not_exists |-> FALSE],
       [op |-> "create", table |-> "topics", if_not_exists |-> FALSE],
       [op |-> "create", table |-> "entry_topics", if_not_exists |-> FALSE],
       [op |-> "create", table |-> "entry_fts", if_not_exists |-> FALSE] >>

\* sqlite3.OperationalError: table ... already exists
DdlRaises(d, st) ==
    st.op = "create" /\ st.table \in d.tables /\ ~st.if_not_exists

\* one DROP or CREATE statement; outside a transaction it is committed at once
ExecDdl(d, st) ==
    IF st.op = "drop"
    THEN [d EXCEPT !.tables = @ \ {st.table}, ![st.table] = <<>>]
    ELSE [d EXCEPT !.tables = @ \cup {st.table}]

\* INTEGER PRIMARY KEY: the next rowid
NextId(rows) ==
    IF rows = <<>> THEN 1
    ELSE 1 + CHOOSE m \in {rows[i].id : i \in 1..Len(rows)} :
                 \A i \in 1..Len(rows) : rows[i].id <= m

\* variant: the slug column without its UNIQUE constraint
SlugNeverTaken(d, slug) == FALSE

\* slug TEXT UNIQUE: sqlite3.IntegrityError
SlugTaken(d, slug) == \E i \in 1..Len(d.entries) : d.entries[i].slug = slug

\* INSERT INTO entries (...) VALUES (...)
InsertEntry(d, n) ==
    [d EXCEPT !.entries = Append(@,
        [id |-> NextId(d.entries), slug |-> n.slug, title |-> n.title,
         content |-> n.content, html |-> n.html,
         created_fs |-> n.created_fs,
         modified_fs |-> n.modified_fs, created_fm |-> n.created_fm,
         topics_raw |-> n.topics_raw])]

\* INSERT OR IGNORE INTO topics (name) VALUES (?)
InsertOrIgnoreTopic(d, name) ==
    IF \E i \in 1..Len(d.topics) : d.topics[i].name = name THEN d
    ELSE [d EXCEPT !.topics = Append(@, [id |-> NextId(d.topics), name |-> name])]

\* SELECT id FROM topics WHERE name = ?
TopicId(d, name) ==
    LET i == CHOOSE i \in 1..Len(d.topics) : d.topics[i].name = name
    IN  d.topics[i].id

\* the for loop over topics: strip, skip empty names, insert-if-absent, link
RECURSIVE LinkTopics(_, _, _)
LinkTopics(d, entry_id, topics) ==
    IF topics = <<>> THEN d
    ELSE LET topic == Strip(Head(topics))
         IN  IF topic = <<>> THEN LinkTopics(d, entry_id, Tail(topics))
             ELSE LET d1 == InsertOrIgnoreTopic(d, topic)
                      d2 == [d1 EXCEPT !.entry_topics = Append(@,
                                [entry_id |-> entry_id,
                                 topic_id |-> TopicId(d1, topic)])]
                  IN  LinkTopics(d2, entry_id, Tail(topics))

\* variant: INSERT OR REPLACE INTO entries, the later file takes the slug
ProcessOneReplace(d, p, c) ==
    IF PrepareRaises(c) THEN [raised |-> TRUE, began |-> FALSE, store |-> d]
    ELSE LET n == Normalize(p, c)
             d0 == [d EXCEPT !.entries = SelectSeq(@, LAMBDA e : e.slug # n.slug)]
         IN  [raised |-> FALSE, began |-> TRUE,
              store |-> LinkTopics(InsertEntry(d0, n), NextId(d0.entries),
                                   n.topics)]

\* variant: topics_raw is joined and stored after the entry row is inserted
ProcessOneLateJoin(d, p, c) ==
    IF ~c.ok THEN [raised |-> TRUE, began |-> FALSE, store |-> d]
    ELSE LET n == Normalize(p, c)
         IN  IF SlugTaken(d, n.slug)
             THEN [raised |-> TRUE, began |-> TRUE, store |-> d]
             ELSE IF JoinRaises(c.topics)
             THEN [raised |-> TRUE, began |-> TRUE, store |-> InsertEntry(d, n)]
             ELSE [raised |-> FALSE, began |-> TRUE,
                   store |-> LinkTopics(InsertEntry(d, n), NextId(d.entries),
                                        n.topics)]

\* the body of the try block for one file: raised, and the store the
\* connection then sees
ProcessOne(d, p, c) ==
    IF PrepareRaises(c) THEN [raised |-> TRUE, began |-> FALSE, store |-> d]
    ELSE LET n == Normalize(p, c)
         IN  IF SlugTaken(d, n.slug)
             THEN [raised |-> TRUE, began |-> TRUE, store |-> d]
             ELSE [raised |-> FALSE, began |-> TRUE,
                   store |-> LinkTopics(InsertEntry(d, n), NextId(d.entries),
                                        n.topics)]

\* INSERT INTO entry_fts (rowid, title, content, topics)
\*   SELECT id, title, content, topics_raw FROM entries
FtsRows(d) ==
    [i \in 1..Len(d.entries) |->
        [rowid |-> d.entries[i].id, title |-> d.entries[i].title,
         content |-> d.entries[i].content, topics |-> d.entries[i].topics_raw]]
\* variant: only the entries that have topics are indexed
PopulateIndexTagged(d) ==
    [d EXCEPT !.entry_fts = @ \o SelectSeq(FtsRows(d), LAMBDA f : f.topics # <<>>)]

PopulateIndex(d) == [d EXCEPT !.entry_fts = @ \o FtsRows(d)]

NoTx == [active |-> FALSE, store |-> EmptyStore]

\* what the builder's own connection reads
View == IF tx.active THEN tx.store ELSE db

\* list(content_dir.glob("**/*.md")): the files in some traversal order
Orders(S) == {o \in [1..Cardinality(S) -> S] : \A p \in S : \E i \in DOMAIN o : o[i] = p}

(***************************************************************************)
(* build_database(root_dir), statement by statement                        *)
(*                                                                         *)
(* sqlite3 opens a transaction before the first INSERT only: each DROP and *)
(* CREATE is committed as it is executed, the rows stay private to the     *)
(* connection until conn.commit().  db is the committed file, which is     *)
(* what get_db()/query_db() of a request read; seen collects the committed *)
(* states the call goes through.  prev, seen, failed, outcome, dirty and   *)
(* unchanged record the history of the calls and guard no action.         *)
(***************************************************************************)
\* sqlite3.connect(db_path): the call begins; the file is created
EnterBuild ==
    /\ pc = "idle"
    /\ pc' = "ddl"
    /\ ddl_i' = 1
    /\ db_file' = TRUE
    /\ prev' = db
    /\ seen' = {}
    /\ all_files' = <<>>
    /\ idx' = 0
    /\ failed' = {}
    /\ outcome' = "running"
    /\ unchanged' = (outcome # "none" /\ ~dirty)
    /\ dirty' = FALSE
    /\ UNCHANGED <<fs, content_exists, db, tx, edits, watchVars, pageVars>>

\* build_database(root) is called by the server or by hand
BeginBuild == EnterBuild /\ UNCHANGED scriptVars

\* conn.execute("DROP TABLE IF EXISTS ...") / conn.execute("CREATE ...")
Ddl ==
    /\ pc = "ddl"
    /\ LET st == DdlStatements[ddl_i]
       IN  IF DdlRaises(db, st)
           THEN /\ pc' = "idle"
                /\ outcome' = "raised"
                /\ UNCHANGED <<db, ddl_i, seen>>
           ELSE /\ db' = ExecDdl(db, st)
                /\ seen' = seen \cup {db'}
                /\ ddl_i' = ddl_i + 1
                /\ pc' = IF ddl_i = Len(DdlStatements) THEN "check" ELSE "ddl"
                /\ UNCHANGED outcome
    /\ UNCHANGED <<fs, content_exists, tx, all_files, idx, failed, prev, dirty,
                   unchanged, edits, db_file, watchVars, scriptVars, pageVars>>

\* if not content_dir.exists(): conn.close(); return
AbortNoContent ==
    /\ pc = "check"
    /\ ~content_exists
    /\ pc' = "idle"
    /\ outcome' = "no_content"
    /\ tx' = NoTx
    /\ UNCHANGED <<fs, content_exists, db, ddl_i, all_files, idx, failed, prev,
                   seen, dirty, unchanged, edits, db_file, watchVars, scriptVars, pageVars>>

\* all_files is empty: conn.close(); return
ReturnNoFiles ==
    /\ pc = "check"
    /\ content_exists
    /\ DOMAIN fs = {}
    /\ pc' = "idle"
    /\ outcome' = "no_files"
    /\ tx' = NoTx
    /\ UNCHANGED <<fs, content_exists, db, ddl_i, all_files, idx, failed, prev,
                   seen, dirty, unchanged, edits, db_file, watchVars, scriptVars, pageVars>>

\* all_files = list(content_dir.glob("**/*.md"))
Glob ==
    /\ pc = "check"
    /\ content_exists
    /\ DOMAIN fs # {}
    /\ \E order \in Orders(DOMAIN fs) : all_files' = order
    /\ idx' = 1
    /\ pc' = "files"
    /\ UNCHANGED <<fs, content_exists, db, ddl_i, tx, failed, outcome, prev, seen,
                   dirty, unchanged, edits, db_file, watchVars, scriptVars, pageVars>>

\* variant: no try/except around the loop body, the exception ends the call
ProcessFileNoCatch ==
    /\ pc = "files"
    /\ LET p == all_files[idx]
           r == ProcessOne(View, p, fs[p])
       IN  /\ failed' = IF r.raised THEN failed \cup {p} ELSE failed
           /\ tx' = IF r.raised THEN NoTx
                    ELSE [active |-> TRUE, store |-> r.store]
           /\ pc' = IF r.raised THEN "idle"
                    ELSE IF idx = Len(all_files) THEN "fts" ELSE "files"
           /\ outcome' = IF r.raised THEN "raised" ELSE outcome
    /\ idx' = idx + 1
    /\ UNCHANGED <<fs, content_exists, db, ddl_i, all_files, prev, seen,
                   dirty, unchanged, edits, db_file, watchVars, scriptVars, pageVars>>

\* one iteration of the per-file loop, its except branch included
ProcessFile ==
    /\ pc = "files"
    /\ LET p == all_files[idx]
           r == ProcessOne(View, p, fs[p])
       IN  /\ failed' = IF r.raised THEN failed \cup {p} ELSE failed
           /\ tx' = IF r.began THEN [active |-> TRUE, store |-> r.store] ELSE tx
    /\ idx' = idx + 1
    /\ pc' = IF idx = Len(all_files) THEN "fts" ELSE "files"
    /\ UNCHANGED <<fs, content_exists, db, ddl_i, all_files, outcome, prev, seen,
                   dirty, unchanged, edits, db_file, watchVars, scriptVars, pageVars>>

\* populate the full-text index from entries
PopulateFts ==
    /\ pc = "fts"
    /\ tx' = [active |-> TRUE, store |-> PopulateIndex(View)]
    /\ pc' = "commit"
    /\ UNCHANGED <<fs, content_exists, db, ddl_i, all_files, idx, failed, outcome,
                   prev, seen, dirty, unchanged, edits, db_file, watchVars, scriptVars, pageVars>>

\* conn.commit(); conn.close()
Commit ==
    /\ pc = "commit"
    /\ db' = View
    /\ seen' = seen \cup {db'}
    /\ tx' = NoTx
    /\ pc' = "idle"
    /\ outcome' = "committed"
    /\ UNCHANGED <<fs, content_exists, ddl_i, all_files, idx, failed, prev, dirty,
                   unchanged, edits, db_file, watchVars, scriptVars, pageVars>>

(***************************************************************************)
(* The author edits content/ between two calls                             *)
(***************************************************************************)
Edited ==
    /\ pc = "idle"
    /\ edits < MaxEdits
    /\ edits' = edits + 1
    /\ dirty' = TRUE
    /\ UNCHANGED <<db, pc, ddl_i, tx, all_files, idx, failed, outcome, prev, seen,
                   unchanged, db_file, watchVars, scriptVars, pageVars>>

WriteFile ==
    /\ content_exists
    /\ \E p \in Paths, c \in Contents :
        /\ p \in DOMAIN fs => fs[p] # c
        /\ fs' = [q \in DOMAIN fs \cup {p} |-> IF q = p THEN c ELSE fs[q]]
    /\ UNCHANGED content_exists
    /\ Edited

DeleteFile ==
    /\ \E p \in DOMAIN fs : fs' = [q \in DOMAIN fs \ {p} |-> fs[q]]
    /\ UNCHANGED content_exists
    /\ Edited

RemoveContentDir ==
    /\ content_exists
    /\ content_exists' = FALSE
    /\ fs' = <<>>
    /\ Edited

CreateContentDir ==
    /\ ~content_exists
    /\ content_exists' = TRUE
    /\ UNCHANGED fs
    /\ Edited

(***************************************************************************)
(* The file watcher and the main thread of app.py                          *)
(*                                                                         *)
(* watchdog delivers events to on_modified one at a time on the observer   *)
(* thread: an event raised while the handler is busy waits in the queue.   *)
(* Here a call of build_database is followed from its entry (the file      *)
(* til.db comes to exist) to its return; what the call does to the tables  *)
(* is the subject of the actions above.                                    *)
(***************************************************************************)
\* if now - self.last_rebuild < 2
Debounce == 2

\* time.time() counts from the epoch: the clock starts at least Debounce
\* past the initial last_rebuild = 0
StartTime == Debounce

\* the kinds of modification event: a directory, a .md file, another file
EventKinds == {"dir", "md", "other"}

\* the .md events raised so far: the times of the first and the last, their
\* number, the calls of rebuild_callback they caused, and whether the clock
\* advanced while the idle handler had an event waiting
NoBurst == [first |-> 0, last |-> 0, md |-> 0, calls |-> 0, waited |-> FALSE]

\* the clock advances
Tick ==
    /\ now < MaxTime
    /\ now' = now + 1
    /\ burst' = [burst EXCEPT !.waited = @ \/ (w_pc = "idle" /\ queue # <<>>)]
    /\ UNCHANGED <<queue, last_rebuild, w_pc, w_now, m_pc, unserved, events,
                   ingestVars, scriptVars, pageVars>>

\* __main__: observer = start_file_watcher()
MainStartWatcher ==
    /\ m_pc = "start"
    /\ m_pc' = "check"
    /\ UNCHANGED <<now, queue, last_rebuild, w_pc, w_now, unserved, events,
                   burst, ingestVars, scriptVars, pageVars>>

\* __main__: if not os.path.exists(root / DATABASE): build_database(root)
MainCheckDb ==
    /\ m_pc = "check"
    /\ m_pc' = IF db_file THEN "serve" ELSE "build"
    /\ db_file' = TRUE
    /\ UNCHANGED <<now, queue, last_rebuild, w_pc, w_now, unserved, events,
                   burst, fs, content_exists, db, pc, ddl_i, tx, all_files, idx,
                   failed, outcome, prev, seen, dirty, unchanged, edits,
                   scriptVars, pageVars>>

\* __main__: the initial build_database(root) returns; app.run(...)
MainBuildDone ==
    /\ m_pc = "build"
    /\ m_pc' = "serve"
    /\ UNCHANGED <<now, queue, last_rebuild, w_pc, w_now, unserved, events,
                   burst, ingestVars, scriptVars, pageVars>>

\* the observer's emitter queues a modification event for the handler
FsEvent ==
    /\ m_pc # "start"
    /\ events < MaxEvents
    /\ \E kind \in EventKinds :
        /\ queue' = Append(queue, kind)
        /\ unserved' = (unserved \/ kind = "md")
        /\ burst' = IF kind # "md" THEN burst
                    ELSE [burst EXCEPT !.first = IF burst.md = 0 THEN now ELSE @,
                                       !.last = now,
                                       !.md = @ + 1]
    /\ events' = events + 1
    /\ UNCHANGED <<now, last_rebuild, w_pc, w_now, m_pc, ingestVars, scriptVars, pageVars>>

\* on_modified: event.is_directory, or src_path does not end with '.md'
IgnoreEvent ==
    /\ w_pc = "idle"
    /\ queue # <<>>
    /\ Head(queue) # "md"
    /\ queue' = Tail(queue)
    /\ UNCHANGED <<now, last_rebuild, w_pc, w_now, m_pc, unserved, events,
                   burst, ingestVars, scriptVars, pageVars>>

\* on_modified: now - self.last_rebuild < 2: return
DebounceDrop ==
    /\ w_pc = "idle"
    /\ queue # <<>>
    /\ Head(queue) = "md"
    /\ now - last_rebuild < Debounce
    /\ queue' = Tail(queue)
    /\ w_now' = now
    /\ UNCHANGED <<now, last_rebuild, w_pc, m_pc, unserved, events, burst,
                   ingestVars, scriptVars, pageVars>>

\* on_modified: self.rebuild_callback() is called; build_database begins
StartRebuild ==
    /\ w_pc = "idle"
    /\ queue # <<>>
    /\ Head(queue) = "md"
    /\ ~(now - last_rebuild < Debounce)
    /\ queue' = Tail(queue)
    /\ w_now' = now
    /\ w_pc' = "rebuild"
    /\ unserved' = FALSE
    /\ burst' = [burst EXCEPT !.calls = @ + 1]
    /\ db_file' = TRUE
    /\ UNCHANGED <<now, last_rebuild, m_pc, events, fs, content_exists, db, pc,
                   ddl_i, tx, all_files, idx, failed, outcome, prev, seen, dirty,
                   unchanged, edits, scriptVars, pageVars>>

\* rebuild_callback returns (rebuild_db swallows any exception);
\* self.last_rebuild = now
RebuildDone ==
    /\ w_pc = "rebuild"
    /\ w_pc' = "idle"
    /\ last_rebuild' = w_now
    /\ UNCHANGED <<now, queue, w_now, m_pc, unserved, events, burst,
                   ingestVars, scriptVars, pageVars>>

(***************************************************************************)
(* The ingestion pipeline run by one caller at a time                      *)
(***************************************************************************)
WatchIdle ==
    /\ now = StartTime
    /\ queue = <<>>
    /\ last_rebuild = 0
    /\ w_pc = "idle"
    /\ w_now = 0
    /\ m_pc = "start"
    /\ unserved = FALSE
    /\ events = 0
    /\ burst = NoBurst

ScriptIdle ==
    /\ r_pc = "start"
    /\ exit_code = 0

\* a value not computed yet
Unset == <<"unset">>

LinkIdle ==
    /\ link_text = <<>>
    /\ link_html = Unset
    /\ entry_slug = Unset

NoRequest == [route |-> "none"]

\* what a loop over a page of rows has left: nothing yet, its
\* processed_entries, or an exception
NotRun == [state |-> "unset", entries |-> <<>>]
Returns(entries) == [state |-> "returned", entries |-> entries]
Raised == [state |-> "raised", entries |-> <<>>]

\* no page of rows has been processed yet
PreviewIdle ==
    /\ row_page = <<>>
    /\ processed_entries = [topic |-> NotRun, builder |-> NotRun, index |-> NotRun]

\* til_deploy.py has not been started
DeployIdle ==
    /\ environment = [git |-> FALSE, rebuild_script |-> FALSE,
                      builder_script |-> FALSE, content |-> FALSE,
                      claude_script |-> FALSE, claude_exports |-> FALSE]
    /\ d_pc = "start"
    /\ steps = <<>>
    /\ deploy_code = 0

ToolsIdle == PreviewIdle /\ DeployIdle

RequestIdle ==
    /\ request = NoRequest
    /\ response = NoRequest

Init ==
    /\ content_exists \in BOOLEAN
    /\ fs \in UNION {[S -> Contents] : S \in SUBSET Paths}
    /\ ~content_exists => DOMAIN fs = {}
    /\ db = EmptyStore
    /\ db_file = FALSE
    /\ pc = "idle"
    /\ ddl_i = 1
    /\ tx = NoTx
    /\ all_files = <<>>
    /\ idx = 0
    /\ failed = {}
    /\ outcome = "none"
    /\ prev = EmptyStore
    /\ seen = {}
    /\ dirty = TRUE
    /\ unchanged = FALSE
    /\ edits = 0
    /\ WatchIdle
    /\ ScriptIdle
    /\ LinkIdle
    /\ RequestIdle
    /\ ToolsIdle

Next ==
    \/ BeginBuild
    \/ Ddl
    \/ AbortNoContent
    \/ ReturnNoFiles
    \/ Glob
    \/ ProcessFile
    \/ PopulateFts
    \/ Commit
    \/ WriteFile
    \/ DeleteFile
    \/ RemoveContentDir
    \/ CreateContentDir

Spec == Init /\ [][Next]_vars

(***************************************************************************)
(* The threads of the development server: main and the observer            *)
(***************************************************************************)
WatchInit ==
    /\ content_exists = TRUE
    /\ fs = <<>>
    /\ db = EmptyStore
    /\ db_file \in BOOLEAN
    /\ pc = "idle"
    /\ ddl_i = 1
    /\ tx = NoTx
    /\ all_files = <<>>
    /\ idx = 0
    /\ failed = {}
    /\ outcome = "none"
    /\ prev = EmptyStore
    /\ seen = {}
    /\ dirty = TRUE
    /\ unchanged = FALSE
    /\ edits = 0
    /\ WatchIdle
    /\ ScriptIdle
    /\ LinkIdle
    /\ RequestIdle
    /\ ToolsIdle

WatchNext ==
    \/ Tick
    \/ MainStartWatcher
    \/ MainCheckDb
    \/ MainBuildDone
    \/ FsEvent
    \/ IgnoreEvent
    \/ DebounceDrop
    \/ StartRebuild
    \/ RebuildDone

WatchSpec == WatchInit /\ [][WatchNext]_vars

(***************************************************************************)
(* rebuild_database.py: validate the content files, remove til.db, import  *)
(* app and call build_database.  content/ is not edited while the script   *)
(* runs.                                                                   *)
(***************************************************************************)
\* content.startswith('---'): a file of Contents opens a front matter block
\* exactly when its metadata has a key
OpensFrontMatter(c) == c.title # <<>> \/ c.slug # <<>> \/ c.topics.kind # "absent"

\* line.startswith('title:') or 'topics:' or 'created:'
StrayKeys ==
    { <<"t", "i", "t", "l", "e", ":">>,
      <<"t", "o", "p", "i", "c", "s", ":">>,
      <<"c", "r", "e", "a", "t", "e", "d", ":">> }
IsStrayKey(line) == \E k \in StrayKeys : StartsWith(line, k)

\* not fm.get('topics')
TopicsFalsy(t) ==
    \/ t.kind \in {"absent", "null"}
    \/ t.kind = "list" /\ t.val = <<>>
    \/ t.kind = "str" /\ t.val[1] = <<>>

\* len(validate_single_file(filepath, content_dir))
FileIssues(c) ==
    IF ~c.ok THEN 1
    ELSE IF ~OpensFrontMatter(c) THEN 1
    ELSE LET lines == StrippedLines(c.body)
             first5 == SubSeq(lines, 1, IF Len(lines) < 5 THEN Len(lines) ELSE 5)
             has_title == c.title # <<>>
             has_heading == \E i \in 1..Len(lines) :
                                StartsWith(lines[i], HeadingPrefix)
         IN  Len(SelectSeq(first5, IsStrayKey))
             + (IF ~has_title /\ ~has_heading THEN 1 ELSE 0)
             + (IF TopicsFalsy(c.topics) THEN 1
                ELSE IF c.topics.kind # "list" THEN 1 ELSE 0)

\* issues_found over md_files
RECURSIVE IssuesFound(_, _)
IssuesFound(files, S) ==
    IF S = {} THEN 0
    ELSE LET p == CHOOSE q \in S : TRUE
         IN  FileIssues(files[p]) + IssuesFound(files, S \ {p})

\* validate_content_files(content_dir)
ValidateContentFiles ==
    IF ~content_exists THEN FALSE ELSE IssuesFound(fs, DOMAIN fs) = 0

\* a til.db left by an earlier rebuild of one document
OldStore ==
    LET created == [EmptyStore EXCEPT !.tables = Tables]
    IN  PopulateIndex(ProcessOne(created, "n-a.md", SrcPlain).store)

\* variant: the issues are reported and the rebuild goes on
MainValidateWarnOnly ==
    /\ r_pc = "start"
    /\ r_pc' = "remove"
    /\ UNCHANGED exit_code
    /\ UNCHANGED <<ingestVars, watchVars, pageVars>>

\* main: if not validate_content_files(content_dir): return 1
MainValidate ==
    /\ r_pc = "start"
    /\ IF ValidateContentFiles
       THEN r_pc' = "remove" /\ UNCHANGED exit_code
       ELSE r_pc' = "done" /\ exit_code' = 1
    /\ UNCHANGED <<ingestVars, watchVars, pageVars>>

\* main: if db_path.exists(): os.remove(db_path)
MainRemoveDb ==
    /\ r_pc = "remove"
    /\ r_pc' = "import"
    /\ db' = EmptyStore
    /\ db_file' = FALSE
    /\ UNCHANGED <<fs, content_exists, pc, ddl_i, tx, all_files, idx, failed,
                   outcome, prev, seen, dirty, unchanged, edits, watchVars,
                   exit_code, pageVars>>

\* main: from app import build_database; importing app runs its module
\* level: if not os.path.exists(root / DATABASE): build_database(root)
MainImportApp ==
    /\ r_pc = "import"
    /\ IF db_file
       THEN r_pc' = "call" /\ UNCHANGED <<ingestVars, watchVars, pageVars>>
       ELSE r_pc' = "import_build" /\ EnterBuild
    /\ UNCHANGED exit_code

\* a statement of a build_database call made by the script
InScriptBuild == r_pc \in {"import_build", "build"}

\* the build_database call of the import has returned
MainImported ==
    /\ r_pc = "import_build"
    /\ pc = "idle"
    /\ IF outcome = "raised"
       THEN r_pc' = "done" /\ exit_code' = 1
       ELSE r_pc' = "call" /\ UNCHANGED exit_code
    /\ UNCHANGED <<ingestVars, watchVars, pageVars>>

\* main: build_database(root)
MainCallBuild ==
    /\ r_pc = "call"
    /\ r_pc' = "build"
    /\ EnterBuild
    /\ UNCHANGED exit_code

\* main: the call has returned; SELECT COUNT(*) FROM entries / topics;
\* return 0, or return 1 from the except branch
MainBuildReturned ==
    /\ r_pc = "build"
    /\ pc = "idle"
    /\ r_pc' = "done"
    /\ exit_code' = IF outcome = "raised" \/ ~({"entries", "topics"} \subseteq db.tables)
                    THEN 1 ELSE 0
    /\ UNCHANGED <<ingestVars, watchVars, pageVars>>

RebuildInit ==
    /\ content_exists \in BOOLEAN
    /\ fs \in UNION {[S -> Contents] : S \in SUBSET Paths}
    /\ ~content_exists => DOMAIN fs = {}
    /\ db_file \in BOOLEAN
    /\ db = IF db_file THEN OldStore ELSE EmptyStore
    /\ pc = "idle"
    /\ ddl_i = 1
    /\ tx = NoTx
    /\ all_files = <<>>
    /\ idx = 0
    /\ failed = {}
    /\ outcome = "none"
    /\ prev = EmptyStore
    /\ seen = {}
    /\ dirty = TRUE
    /\ unchanged = FALSE
    /\ edits = 0
    /\ WatchIdle
    /\ ScriptIdle
    /\ LinkIdle
    /\ RequestIdle
    /\ ToolsIdle

RebuildNext ==
    \/ MainValidate
    \/ MainRemoveDb
    \/ MainImportApp
    \/ MainImported
    \/ MainCallBuild
    \/ MainBuildReturned
    \/ InScriptBuild /\ Ddl
    \/ InScriptBuild /\ ReturnNoFiles
    \/ InScriptBuild /\ Glob
    \/ InScriptBuild /\ ProcessFile
    \/ InScriptBuild /\ PopulateFts
    \/ InScriptBuild /\ Commit

RebuildSpec == RebuildInit /\ [][RebuildNext]_vars

(***************************************************************************)
(* The wikilink and the slug of one page name                              *)
(***************************************************************************)
\* no build_database call has been made yet
BuilderIdle ==
    /\ pc = "idle"
    /\ ddl_i = 1
    /\ tx = NoTx
    /\ all_files = <<>>
    /\ idx = 0
    /\ failed = {}
    /\ outcome = "none"
    /\ prev = EmptyStore
    /\ seen = {}
    /\ dirty = TRUE
    /\ unchanged = FALSE
    /\ edits = 0

\* the page names tried: up to MaxName characters
LinkAlphabet == {"A", "b", " ", "_", "-", "!"}
LinkNames == UNION {[1..n -> LinkAlphabet] : n \in 1..MaxName}

\* build_database renders a body holding [[link_text]]
ConvertLink ==
    /\ link_html = Unset
    /\ link_html' = ConvertWikilinks(<<"[", "[">> \o link_text \o <<"]", "]">>)
    /\ UNCHANGED <<link_text, entry_slug, requestVars, toolVars, ingestVars,
                   watchVars, scriptVars>>

\* build_database ingests a file whose front matter title is link_text and
\* that has no slug key
DeriveEntrySlug ==
    /\ entry_slug = Unset
    /\ entry_slug' = ResolveSlug(<<>>, ResolveTitle(link_text, <<>>, <<>>))
    /\ UNCHANGED <<link_text, link_html, requestVars, toolVars, ingestVars,
                   watchVars, scriptVars>>

LinkInit ==
    /\ link_text \in LinkNames
    /\ link_html = Unset
    /\ entry_slug = Unset
    /\ content_exists = TRUE
    /\ fs = <<>>
    /\ db = EmptyStore
    /\ db_file = FALSE
    /\ BuilderIdle
    /\ WatchIdle
    /\ ScriptIdle
    /\ RequestIdle
    /\ ToolsIdle

LinkNext ==
    \/ ConvertLink
    \/ DeriveEntrySlug

LinkSpec == LinkInit /\ [][LinkNext]_vars

(***************************************************************************)
(* The request routes of app.py and the queries they run on til.db         *)
(***************************************************************************)
PER_PAGE == 20
PreviewMax == 200
PreviewCut == 140
RelatedLimit == 5

\* TEXT values compare byte by byte (BINARY collation)
CodePoints ==
    <<"\t", "\n", " ", "!", "\"", "#", "(", "-", "0", "1", "2", "3", "4", "5",
      "6", "7", "8", "9", ":", "A", "B", "N", "T", "_", "a", "b", "n", "t", "x",
      "y", "z">>
Code(c) == CHOOSE i \in 1..Len(CodePoints) : CodePoints[i] = c

RECURSIVE TextLess(_, _)
TextLess(a, b) ==
    IF b = <<>> THEN FALSE
    ELSE IF a = <<>> THEN TRUE
    ELSE IF Head(a) = Head(b) THEN TextLess(Tail(a), Tail(b))
    ELSE Code(Head(a)) < Code(Head(b))

\* ORDER BY key ASC over records with a field key: rows with equal keys
\* come in any order
Minima(S) == {m \in S : \A x \in S : ~TextLess(x.key, m.key)}
RECURSIVE Ascending(_)
Ascending(S) ==
    IF S = {} THEN {<<>>}
    ELSE UNION {{<<m>> \o r : r \in Ascending(S \ {m})} : m \in Minima(S)}

Reverse(q) == [i \in 1..Len(q) |-> q[Len(q) + 1 - i]]

\* ORDER BY key DESC
Descending(S) == {Reverse(q) : q \in Ascending(S)}

\* LIMIT ? OFFSET ?: a negative offset counts as 0
LimitOffset(q, limit, offset) ==
    LET o == IF offset < 0 THEN 0 ELSE offset
        n == IF Len(q) < o + limit THEN Len(q) ELSE o + limit
    IN  IF o >= Len(q) THEN <<>> ELSE SubSeq(q, o + 1, n)

\* COALESCE(a, b)
Coalesce(a, b) == IF a # Null THEN a ELSE b

\* COALESCE(created_fm, created_fs)
EffectiveCreated(e) == Coalesce(e.created_fm, e.created_fs)

\* SELECT t.name as topic, COUNT(*) as count FROM entry_topics et
\* JOIN topics t ON et.topic_id = t.id GROUP BY t.name ORDER BY t.name ASC
LinksOf(d, t) == {k \in 1..Len(d.entry_topics) : d.entry_topics[k].topic_id = t.id}
get_topic_cloud(d) ==
    LET groups == {[key |-> t.name,
                    count |-> Cardinality(UNION {LinksOf(d, u) :
                                 u \in {u \in Range(d.topics) : u.name = t.name}})] :
                   t \in {t \in Range(d.topics) : LinksOf(d, t) # {}}}
        sorted == CHOOSE q \in Ascending(groups) : TRUE
    IN  [i \in 1..Len(sorted) |-> [topic |-> sorted[i].key, count |-> sorted[i].count]]

\* str.split(): the words of a text
WordLength(t) ==
    CHOOSE n \in 0..Len(t) :
        /\ \A i \in 1..n : ~IsSpaceChar(t[i])
        /\ n = Len(t) \/ IsSpaceChar(t[n + 1])
RECURSIVE Words(_)
Words(t) ==
    LET u == LStrip(t, Whitespace)
    IN  IF u = <<>> THEN <<>>
        ELSE <<SubSeq(u, 1, WordLength(u))>>
             \o Words(SubSeq(u, WordLength(u) + 1, Len(u)))

\* ' '.join(preview_text.split())
CleanWhitespace(t) == Join(Words(t), <<" ">>)

\* str.rfind(c): the index from 0 of the last c, -1 when there is none
RFind(t, c) ==
    IF \E i \in 1..Len(t) : t[i] = c
    THEN (CHOOSE i \in 1..Len(t) : t[i] = c /\ \A j \in (i + 1)..Len(t) : t[j] # c) - 1
    ELSE -1

\* t[:n]
Prefix(t, n) == SubSeq(t, 1, IF Len(t) < n THEN Len(t) ELSE n)

Ellipsis == <<".", ".", ".">>

\* re.sub(r'<[^>]+>', '', html) on the pieces of markup the renderer writes
RECURSIVE UntilTagEnd(_)
UntilTagEnd(h) ==
    IF h = <<>> THEN <<>>
    ELSE IF Head(h) = HrefClose[1] THEN Tail(h) ELSE UntilTagEnd(Tail(h))
RECURSIVE StripTags(_)
StripTags(h) ==
    IF h = <<>> THEN <<>>
    ELSE IF Head(h) \in {"<p>", "</p>", "</a>"} THEN StripTags(Tail(h))
    ELSE IF Head(h) = HrefOpen[1] THEN StripTags(UntilTagEnd(h))
    ELSE <<Head(h)>> \o StripTags(Tail(h))

\* the text a preview starts from: content.strip(), else the html without
\* its tags, else ""
PreviewSource(e) ==
    IF Strip(Text(e.content)) # <<>> THEN Strip(Text(e.content))
    ELSE IF e.html # <<>> THEN Strip(StripTags(e.html))
    ELSE <<>>

\* variant: a space at index 140 is already a word boundary to cut at
TopicPreviewCutInclusive(e) ==
    LET preview_text == PreviewSource(e)
        clean == CleanWhitespace(preview_text)
        truncated == Prefix(clean, PreviewMax)
        last_space == RFind(truncated, " ")
    IN  IF preview_text = <<>> THEN <<>>
        ELSE IF Len(clean) > PreviewMax
             THEN IF last_space >= PreviewCut
                  THEN Prefix(clean, last_space) \o Ellipsis
                  ELSE truncated \o Ellipsis
             ELSE clean

\* the preview as the topic route computes it inside its loop
TopicPreview(e) ==
    LET preview_text == PreviewSource(e)
        clean == CleanWhitespace(preview_text)
        truncated == Prefix(clean, PreviewMax)
        last_space == RFind(truncated, " ")
    IN  IF preview_text = <<>> THEN <<>>
        ELSE IF Len(clean) > PreviewMax
             THEN IF last_space > PreviewCut
                  THEN Prefix(clean, last_space) \o Ellipsis
                  ELSE truncated \o Ellipsis
             ELSE clean

\* was_modified: modified_date and modified_date[:10] != created_date[:10]
\* with created_date = created_fm or created_fs
WasModified(e) ==
    LET created_date == IF e.created_fm \notin {Null, <<>>} THEN e.created_fm
                        ELSE e.created_fs
    IN  e.modified_fs # <<>> /\ Prefix(e.modified_fs, 10) # Prefix(created_date, 10)

\* entry_dict with 'preview' and 'was_modified' added; of the columns the
\* ones that identify and date the row are kept
Summary(e, preview) ==
    [id |-> e.id, slug |-> e.slug, title |-> e.title, topics_raw |-> e.topics_raw,
     created |-> EffectiveCreated(e), preview |-> preview,
     was_modified |-> WasModified(e)]

\* an exception leaves the view function: 500
ServerError == [status |-> 500]
\* abort(404)
NotFound == [status |-> 404]
\* redirect(url_for("index"))
RedirectToIndex == [status |-> 302, location |-> "index"]

\* render_template of a listing
Listing(d, template, entries, page, count) ==
    [status |-> 200, template |-> template, entries |-> entries,
     topic_cloud |-> get_topic_cloud(d), page |-> page, count |-> count,
     has_next |-> (page - 1) * PER_PAGE + PER_PAGE < count,
     has_prev |-> page > 1]

\* the rows of a page: ORDER BY COALESCE(created_fm, created_fs), LIMIT, OFFSET
Keyed(rows) == {[key |-> EffectiveCreated(r.e), row |-> r] : r \in rows}
PageRows(rows, page, order) ==
    {LimitOffset([i \in 1..Len(q) |-> q[i].row.e], PER_PAGE, (page - 1) * PER_PAGE) :
        q \in IF order = "desc" THEN Descending(Keyed(rows)) ELSE Ascending(Keyed(rows))}

\* index(), given the rows its page query returned.  The statements after
\* the preview source are indented outside the for loop: they run once,
\* after it, on the variables the last iteration left; preview_text is
\* unbound when the loop ran no iteration and truncated is unbound when the
\* text is not longer than 200.
index(d, entries, page) ==
    IF entries = <<>> THEN ServerError
    ELSE LET entry == entries[Len(entries)]
             preview_text == PreviewSource(entry)
             clean == CleanWhitespace(preview_text)
             truncated == Prefix(clean, PreviewMax)
             last_space == RFind(truncated, " ")
         IN  IF preview_text = <<>>
             THEN Listing(d, "index.html", <<>>, page, Len(d.entries))
             ELSE IF Len(clean) > PreviewMax
             THEN Listing(d, "index.html",
                          <<Summary(entry, IF last_space > PreviewCut
                                           THEN Prefix(clean, last_space) \o Ellipsis
                                           ELSE clean)>>,
                          page, Len(d.entries))
             ELSE ServerError

\* the rows of entries JOIN entry_topics JOIN topics WHERE t.name = ?: one
\* per link row
TopicJoin(d, name) ==
    {[e |-> e, k |-> k] : <<e, k>> \in
        {x \in Range(d.entries) \X (1..Len(d.entry_topics)) :
            /\ d.entry_topics[x[2]].entry_id = x[1].id
            /\ \E t \in Range(d.topics) :
                   t.name = name /\ d.entry_topics[x[2]].topic_id = t.id}}

\* variant: a page without rows is answered as not found
topicEmptyPageNotFound(d, name, entries, page) ==
    IF entries = <<>> THEN NotFound
    ELSE Listing(d, "topic.html",
                 [i \in 1..Len(entries) |-> Summary(entries[i], TopicPreview(entries[i]))],
                 page, Cardinality(TopicJoin(d, name)))

\* topic(topic), given the rows its page query returned
topic(d, name, entries, page) ==
    IF ~\E t \in Range(d.topics) : t.name = name THEN NotFound
    ELSE Listing(d, "topic.html",
                 [i \in 1..Len(entries) |-> Summary(entries[i], TopicPreview(entries[i]))],
                 page, Cardinality(TopicJoin(d, name)))

\* variant: the related query without 'AND e.id != ?'
RelatedRowsWithSelf(d, id) ==
    {[key |-> e.title, id |-> e.id, slug |-> e.slug] : e \in
        {e \in Range(d.entries) :
            \E et, et2 \in Range(d.entry_topics) :
                /\ et.entry_id = e.id
                /\ et2.entry_id = id
                /\ et.topic_id = et2.topic_id}}

\* SELECT DISTINCT e.id, e.slug, e.title ... WHERE et2.entry_id = ? AND
\* e.id != ? ORDER BY e.title LIMIT 5
RelatedRows(d, id) ==
    {[key |-> e.title, id |-> e.id, slug |-> e.slug] : e \in
        {e \in Range(d.entries) :
            /\ e.id # id
            /\ \E et, et2 \in Range(d.entry_topics) :
                   /\ et.entry_id = e.id
                   /\ et2.entry_id = id
                   /\ et.topic_id = et2.topic_id}}
RelatedPages(d, id) ==
    {[i \in 1..Len(page) |->
         [id |-> page[i].id, slug |-> page[i].slug, title |-> page[i].key]] :
        page \in {LimitOffset(q, RelatedLimit, 0) : q \in Ascending(RelatedRows(d, id))}}

\* SELECT t.name ... WHERE et.entry_id = ? ORDER BY t.name
EntryTopicNames(d, id) ==
    LET links == {[key |-> t.name, k |-> k] : <<t, k>> \in
                    {x \in Range(d.topics) \X (1..Len(d.entry_topics)) :
                        /\ d.entry_topics[x[2]].entry_id = id
                        /\ d.entry_topics[x[2]].topic_id = x[1].id}}
        sorted == CHOOSE q \in Ascending(links) : TRUE
    IN  [i \in 1..Len(sorted) |-> sorted[i].key]

\* entry(slug), given the rows its related query returned
entry(d, slug, related) ==
    IF ~\E e \in Range(d.entries) : e.slug = slug THEN NotFound
    ELSE LET e == CHOOSE e \in Range(d.entries) : e.slug = slug
         IN  [status |-> 200, template |-> "entry.html",
              entry |-> [id |-> e.id, slug |-> e.slug, title |-> e.title,
                         created |-> EffectiveCreated(e), topics_raw |-> e.topics_raw],
              entry_topics |-> EntryTopicNames(d, e.id),
              topic_cloud |-> get_topic_cloud(d),
              related |-> related]

\* the full-text queries tried: a word, always the whole query, or text
\* that is no query: an unterminated string, an open parenthesis
Count(t, c) == Cardinality({i \in 1..Len(t) : t[i] = c})
FtsSyntaxError(q) == Count(q, "\"") % 2 = 1 \/ Count(q, "(") # 0

\* the tokens of a text: runs of letters and digits, lower-cased
IsTokenChar(c) == IsLetter(c) \/ c \in Digits
RECURSIVE Tokens(_)
Tokens(t) ==
    IF t = <<>> THEN {}
    ELSE IF ~IsTokenChar(Head(t)) THEN Tokens(Tail(t))
    ELSE LET n == CHOOSE n \in 1..Len(t) :
                      /\ \A i \in 1..n : IsTokenChar(t[i])
                      /\ n = Len(t) \/ ~IsTokenChar(t[n + 1])
         IN  {Lower(SubSeq(t, 1, n))} \cup Tokens(SubSeq(t, n + 1, Len(t)))

\* the rows of entry_fts WHERE entry_fts MATCH ? for a query of one word
FtsMatch(d, q) ==
    {f \in Range(d.entry_fts) :
        Lower(q) \in Tokens(f.title) \cup Tokens(Text(f.content)) \cup Tokens(f.topics)}

\* search(): q stripped; the COUNT(*) ... MATCH query raises
\* sqlite3.OperationalError for text that is no query; snippet() reads the
\* columns of the content table entries, which has no column 'topics', and
\* raises as soon as a row matches
search(d, q, page) ==
    IF Strip(q) = <<>> THEN RedirectToIndex
    ELSE IF FtsSyntaxError(Strip(q)) THEN ServerError
    ELSE IF FtsMatch(d, Strip(q)) # {} THEN ServerError
    ELSE [status |-> 200, template |-> "search.html", entries |-> <<>>,
          topic_cloud |-> get_topic_cloud(d), query |-> Strip(q), page |-> page,
          count |-> 0, has_next |-> (page - 1) * PER_PAGE + PER_PAGE < 0,
          has_prev |-> page > 1]

\* a query on a table that does not exist raises sqlite3.OperationalError
Queryable(d) == Tables \subseteq d.tables

\* the requests tried
Pages == {1, 2}
SortOrders == {"desc", "asc"}
TopicsAsked == {<<"x">>, <<"y">>, <<"z">>, <<"X">>}
SlugsAsked == {<<"a", "b">>, <<"n", "1">>, <<"t">>, <<"b", "2">>, <<"n", "o">>}
QueriesAsked ==
    {<<>>, <<" ">>, <<"t">>, <<"z">>, <<"X">>, <<"\"", "t">>, <<"(", "t">>}

\* GET /?page=&order=
IndexRequest ==
    /\ \E page \in Pages, order \in SortOrders :
        /\ request' = [route |-> "index", page |-> page, order |-> order]
        /\ IF ~Queryable(db) THEN response' = ServerError
           ELSE \E entries \in PageRows({[e |-> e] : e \in Range(db.entries)},
                                        page, order) :
                    response' = index(db, entries, page)
    /\ UNCHANGED <<ingestVars, watchVars, scriptVars, linkVars, toolVars>>

\* GET /topic/<topic>?page=&order=
TopicRequest ==
    /\ \E name \in TopicsAsked, page \in Pages, order \in SortOrders :
        /\ request' = [route |-> "topic", topic |-> name, page |-> page,
                       order |-> order]
        /\ IF ~Queryable(db) THEN response' = ServerError
           ELSE \E entries \in PageRows(TopicJoin(db, name), page, order) :
                    response' = topic(db, name, entries, page)
    /\ UNCHANGED <<ingestVars, watchVars, scriptVars, linkVars, toolVars>>

\* GET /note/<slug>
EntryRequest ==
    /\ \E slug \in SlugsAsked :
        /\ request' = [route |-> "entry", slug |-> slug]
        /\ IF ~Queryable(db) THEN response' = ServerError
           ELSE IF ~\E e \in Range(db.entries) : e.slug = slug
                THEN response' = entry(db, slug, <<>>)
           ELSE \E related \in RelatedPages(db,
                    (CHOOSE e \in Range(db.entries) : e.slug = slug).id) :
                    response' = entry(db, slug, related)
    /\ UNCHANGED <<ingestVars, watchVars, scriptVars, linkVars, toolVars>>

\* GET /search?q=&page=
SearchRequest ==
    /\ \E q \in QueriesAsked, page \in Pages :
        /\ request' = [route |-> "search", q |-> q, page |-> page]
        /\ response' = IF Strip(q) # <<>> /\ ~Queryable(db) THEN ServerError
                       ELSE search(db, q, page)
    /\ UNCHANGED <<ingestVars, watchVars, scriptVars, linkVars, toolVars>>

\* build_database as a function of the files: the store a call commits when
\* it reads them in the given order
RECURSIVE IngestAll(_, _, _)
IngestAll(d, files, order) ==
    IF order = <<>> THEN d
    ELSE IngestAll(ProcessOne(d, Head(order), files[Head(order)]).store, files,
                   Tail(order))
BuildStore(files, order) ==
    LET created == [EmptyStore EXCEPT !.tables = Tables]
    IN  IF order = <<>> THEN created
        ELSE PopulateIndex(IngestAll(created, files, order))

\* a content directory of eight notes: s1 shares a topic with six others;
\* s4 names a topic twice; s8 has a body longer than a preview
Note(title, topics, body) == Src(TRUE, title, <<>>, "list", topics, body)
LongBody == << [i \in 1..150 |-> "a"] \o <<" ">> \o [i \in 1..60 |-> "b"] >>
Shelf ==
    ("s1.md" :> Note(<<"N", "1">>, << <<"x">>, <<"y">> >>, << <<"n">> >>))
    @@ ("s2.md" :> Note(<<"t">>, << <<"x">> >>, << <<"t">> >>))
    @@ ("s3.md" :> Note(<<"n">>, << <<"y">> >>, << <<"n">> >>))
    @@ ("s4.md" :> Note(<<"b">>, << <<"x">>, <<"x">> >>, << <<"b">> >>))
    @@ ("s5.md" :> Note(<<"a">>, << <<"x">>, <<"y">> >>, << <<"a">> >>))
    @@ ("s6.md" :> Note(<<"y">>, << <<"y">> >>, << <<"t">> >>))
    @@ ("s7.md" :> Note(<<"x">>, << <<"x">> >>, << <<"t">> >>))
    @@ ("s8.md" :> Note(<<"B", "2">>, << <<"z">> >>, LongBody))
ShelfOrder ==
    <<"s1.md", "s2.md", "s3.md", "s4.md", "s5.md", "s6.md", "s7.md", "s8.md">>

\* til.db has been built from the files of content/ and is being served
QueryInit ==
    /\ content_exists = TRUE
    /\ fs \in UNION {[S -> Contents] : S \in SUBSET Paths} \cup {Shelf}
    /\ db \in {BuildStore(fs, order) :
                 order \in IF fs = Shelf THEN {ShelfOrder} ELSE Orders(DOMAIN fs)}
    /\ db_file = TRUE
    /\ BuilderIdle
    /\ WatchIdle
    /\ ScriptIdle
    /\ LinkIdle
    /\ RequestIdle
    /\ ToolsIdle

QueryNext ==
    \/ IndexRequest
    \/ TopicRequest
    \/ EntryRequest
    \/ SearchRequest

QuerySpec == QueryInit /\ [][QueryNext]_vars

(***************************************************************************)
(* The previews of a page of rows: the loop of the topic route, the loop   *)
(* of the index route and process_entries_for_preview of                   *)
(* til_static_builder.py, each applied to the same rows                    *)
(***************************************************************************)
\* variant: the word boundary may lie beyond index 70, as for a budget of 100
BuilderPreviewEarlyCut(e) ==
    LET preview_text == PreviewSource(e)
        clean == CleanWhitespace(preview_text)
        truncated == Prefix(clean, PreviewMax)
        last_space == RFind(truncated, " ")
    IN  IF preview_text = <<>> THEN <<>>
        ELSE IF Len(clean) > PreviewMax
             THEN IF last_space > 70
                  THEN Prefix(clean, last_space) \o Ellipsis
                  ELSE truncated \o Ellipsis
             ELSE clean

\* the preview as process_entries_for_preview computes it inside its loop
BuilderPreview(e) ==
    LET preview_text == PreviewSource(e)
        clean == CleanWhitespace(preview_text)
        truncated == Prefix(clean, PreviewMax)
        last_space == RFind(truncated, " ")
    IN  IF preview_text = <<>> THEN <<>>
        ELSE IF Len(clean) > PreviewMax
             THEN IF last_space > PreviewCut
                  THEN Prefix(clean, last_space) \o Ellipsis
                  ELSE truncated \o Ellipsis
             ELSE clean

\* TILStaticSiteBuilder.process_entries_for_preview(entries)
process_entries_for_preview(entries) ==
    [i \in 1..Len(entries) |-> Summary(entries[i], BuilderPreview(entries[i]))]

\* the processed_entries the topic route hands to its template
TopicProcessed(entries) ==
    [i \in 1..Len(entries) |-> Summary(entries[i], TopicPreview(entries[i]))]

\* the processed_entries the index route hands to its template, or the
\* exception that leaves it
IndexProcessed(entries) ==
    LET r == index([EmptyStore EXCEPT !.tables = Tables], entries, 1)
    IN  IF r = ServerError THEN Raised ELSE Returns(r.entries)

\* the bodies tried: n characters with spaces at the given positions
\* (counted from 1), and bodies that end in three dots of their own
PreviewLengths == {0, 3, 50, 200, 201, 250}
SpacePositions == {1, 100, 140, 141, 142, 150, 151, 200, 201, 202}
PlainBody(n, S) == [i \in 1..n |-> IF i \in S THEN " " ELSE "a"]
PreviewBodies ==
    {PlainBody(n, S) : n \in PreviewLengths,
                       S \in {S \in SUBSET SpacePositions : Cardinality(S) <= 2}}
    \cup {PlainBody(n, {}) \o Ellipsis : n \in {3, 197, 250}}
    \cup {[PlainBody(250, {}) EXCEPT ![10] = "\t"]}

\* the pages of rows tried: the entries of a store built from one or two
\* notes with these bodies, or from the files of Contents
PreviewShelves ==
    {("s1.md" :> Note(<<"N", "1">>, << <<"x">> >>, <<b>>)) : b \in PreviewBodies}
    \cup {("s1.md" :> Note(<<"N", "1">>, << <<"x">> >>, <<b>>))
          @@ ("s2.md" :> Note(<<"t">>, << <<"x">> >>, <<c>>)) :
             b \in {PlainBody(3, {}), PlainBody(250, {150})},
             c \in {PlainBody(50, {}), PlainBody(201, {}), PlainBody(250, {142})}}
    \cup UNION {[S -> Contents] : S \in SUBSET Paths}
PreviewPages ==
    UNION {{BuildStore(files, order).entries : order \in Orders(DOMAIN files)} :
           files \in PreviewShelves}

\* topic(): the loop over the rows of its page query
TopicProcess ==
    /\ processed_entries.topic = NotRun
    /\ processed_entries' = [processed_entries EXCEPT !.topic = Returns(TopicProcessed(row_page))]
    /\ UNCHANGED <<row_page, deployVars, linkVars, requestVars, ingestVars,
                   watchVars, scriptVars>>

\* index(): the loop over the rows of its page query
IndexProcess ==
    /\ processed_entries.index = NotRun
    /\ processed_entries' = [processed_entries EXCEPT !.index = IndexProcessed(row_page)]
    /\ UNCHANGED <<row_page, deployVars, linkVars, requestVars, ingestVars,
                   watchVars, scriptVars>>

\* generate_index_pages / generate_topic_pages: process_entries_for_preview(entries)
BuilderProcess ==
    /\ processed_entries.builder = NotRun
    /\ processed_entries' =
           [processed_entries EXCEPT
               !.builder = Returns(process_entries_for_preview(row_page))]
    /\ UNCHANGED <<row_page, deployVars, linkVars, requestVars, ingestVars,
                   watchVars, scriptVars>>

PreviewInit ==
    /\ row_page \in PreviewPages
    /\ processed_entries = [topic |-> NotRun, builder |-> NotRun, index |-> NotRun]
    /\ content_exists = TRUE
    /\ fs = <<>>
    /\ db = EmptyStore
    /\ db_file = FALSE
    /\ BuilderIdle
    /\ WatchIdle
    /\ ScriptIdle
    /\ LinkIdle
    /\ request = NoRequest
    /\ response = NoRequest
    /\ DeployIdle

PreviewNext ==
    \/ TopicProcess
    \/ IndexProcess
    \/ BuilderProcess

PreviewSpec == PreviewInit /\ [][PreviewNext]_vars

(***************************************************************************)
(* til_deploy.py: main() runs the deployment steps one after the other.    *)
(* A command run through run_command succeeds or fails (its exit status);  *)
(* steps records each step run and whether it succeeded.                   *)
(***************************************************************************)
\* what the working directory may hold
Environments ==
    [git : BOOLEAN, rebuild_script : BOOLEAN, builder_script : BOOLEAN,
     content : BOOLEAN, claude_script : BOOLEAN, claude_exports : BOOLEAN]

\* check_environment(): .git, then each of required_files
check_environment(env) ==
    IF ~env.git THEN FALSE
    ELSE IF ~env.rebuild_script THEN FALSE
    ELSE IF ~env.builder_script THEN FALSE
    ELSE env.content

\* check_claude_integration()
check_claude_integration(env) ==
    [available |-> env.claude_script, has_new_exports |-> env.claude_exports]

\* process_claude_conversations(): whether the integration command is run
RunsClaudeCommand(env) ==
    /\ check_claude_integration(env).available
    /\ check_claude_integration(env).has_new_exports

\* a step of main has run with the given result
Ran(step, ok) == steps' = Append(steps, [step |-> step, ok |-> ok])

\* return code: main is over
Return(code) == d_pc' = "done" /\ deploy_code' = code

DeployFrame == UNCHANGED <<environment, previewVars, linkVars, requestVars,
                           ingestVars, watchVars, scriptVars>>

\* main: if not check_environment(): return 1
StepEnvironment ==
    /\ d_pc = "start"
    /\ Ran("environment", check_environment(environment))
    /\ IF check_environment(environment)
       THEN d_pc' = "claude" /\ UNCHANGED deploy_code
       ELSE Return(1)
    /\ DeployFrame

\* main, STEP 0: Claude integration, when the script or an export is there;
\* its failure is logged and the deployment continues
Step0Claude ==
    /\ d_pc = "claude"
    /\ d_pc' = "database"
    /\ IF RunsClaudeCommand(environment)
       THEN \E ok \in BOOLEAN : Ran("claude", ok)
       ELSE UNCHANGED steps
    /\ UNCHANGED deploy_code
    /\ DeployFrame

\* variant: a failed database build is logged and the deployment continues
Step1DatabaseContinue ==
    /\ d_pc = "database"
    /\ \E ok \in BOOLEAN : Ran("database", ok)
    /\ d_pc' = "static"
    /\ UNCHANGED deploy_code
    /\ DeployFrame

\* main, STEP 1: run_command("python rebuild_database.py", ...)
Step1Database ==
    /\ d_pc = "database"
    /\ \E ok \in BOOLEAN :
        /\ Ran("database", ok)
        /\ IF ok THEN d_pc' = "static" /\ UNCHANGED deploy_code ELSE Return(1)
    /\ DeployFrame

\* main, STEP 2: run_command("python til_static_builder.py --base-url ...")
Step2Static ==
    /\ d_pc = "static"
    /\ \E ok \in BOOLEAN :
        /\ Ran("static", ok)
        /\ IF ok THEN d_pc' = "changes" /\ UNCHANGED deploy_code ELSE Return(1)
    /\ DeployFrame

\* main, STEP 3: if not check_for_changes(): return 0
Step3Changes ==
    /\ d_pc = "changes"
    /\ \E changed \in BOOLEAN :
        /\ Ran("changes", changed)
        /\ IF changed THEN d_pc' = "add" /\ UNCHANGED deploy_code ELSE Return(0)
    /\ DeployFrame

\* main, STEP 4: run_command("git add _site/", ...)
Step4Add ==
    /\ d_pc = "add"
    /\ \E ok \in BOOLEAN :
        /\ Ran("add", ok)
        /\ IF ok THEN d_pc' = "commit" /\ UNCHANGED deploy_code ELSE Return(1)
    /\ DeployFrame

\* main, STEP 4: run_command('git commit -m "..."', ...)
Step4Commit ==
    /\ d_pc = "commit"
    /\ \E ok \in BOOLEAN :
        /\ Ran("commit", ok)
        /\ IF ok THEN d_pc' = "push" /\ UNCHANGED deploy_code ELSE Return(1)
    /\ DeployFrame

\* main, STEP 5: run_command("git subtree push --prefix=_site origin gh-pages")
Step5Push ==
    /\ d_pc = "push"
    /\ \E ok \in BOOLEAN :
        /\ Ran("push", ok)
        /\ Return(IF ok THEN 0 ELSE 1)
    /\ DeployFrame

DeployInit ==
    /\ environment \in Environments
    /\ d_pc = "start"
    /\ steps = <<>>
    /\ deploy_code = 0
    /\ content_exists = TRUE
    /\ fs = <<>>
    /\ db = EmptyStore
    /\ db_file = FALSE
    /\ BuilderIdle
    /\ WatchIdle
    /\ ScriptIdle
    /\ LinkIdle
    /\ RequestIdle
    /\ PreviewIdle

DeployNext ==
    \/ StepEnvironment
    \/ Step0Claude
    \/ Step1Database
    \/ Step2Static
    \/ Step3Changes
    \/ Step4Add
    \/ Step4Commit
    \/ Step5Push

DeploySpec == DeployInit /\ [][DeployNext]_vars

(***************************************************************************)
(* Vocabulary of the properties                                            *)
(***************************************************************************)
\* the last build_database call has returned and content/ is as it read it
Returned ==
    pc = "idle" /\ outcome \in {"committed", "no_files", "no_content"} /\ ~dirty

\* a document as the claims compare it
Doc(e) ==
    [slug |-> e.slug, title |-> e.title, content |-> e.content,
     topics_raw |-> e.topics_raw]
Docs(d) == {Doc(e) : e \in Range(d.entries)}
TopicNames(d) == {t.name : t \in Range(d.topics)}

\* (slug, topic name) for every row of entry_topics whose ids resolve
Memberships(d) ==
    {<<e.slug, t.name>> : <<e, t>> \in
        {x \in Range(d.entries) \X Range(d.topics) :
            \E l \in Range(d.entry_topics) :
                l.entry_id = x[1].id /\ l.topic_id = x[2].id}}

\* the names linked to entry e through entry_topics
LinkedNames(d, e) ==
    {t.name : t \in {t \in Range(d.topics) :
        \E l \in Range(d.entry_topics) : l.entry_id = e.id /\ l.topic_id = t.id}}

\* the files of the last call that did not take the except branch
Ingested == Range(all_files) \ failed

\* the document build_database derives from file p
DocOf(p) ==
    LET n == Normalize(p, fs[p])
    IN  [slug |-> n.slug, title |-> n.title, content |-> n.content,
         topics_raw |-> n.topics_raw]

\* the topic names build_database links for file p
NamesOf(p) == {Strip(t) : t \in Range(Normalize(p, fs[p]).topics)} \ {<<>>}

AllParse == \A p \in DOMAIN fs : ~PrepareRaises(fs[p])
DistinctSlugs ==
    \A p, q \in DOMAIN fs :
        p # q => Normalize(p, fs[p]).slug # Normalize(q, fs[q]).slug

(***************************************************************************)
(* C1. Idempotent rebuild: when build_database runs twice in succession on *)
(* unchanged source files that all parse and have pairwise distinct slugs, *)
(* the second run leaves the same documents (slug, title, raw body,        *)
(* topics_raw), the same topic names, the same document-topic memberships  *)
(* and the same row counts as the first run left.                          *)
(***************************************************************************)
C1_IdempotentRebuild ==
    (Returned /\ unchanged /\ AllParse /\ DistinctSlugs) =>
        /\ Docs(db) = Docs(prev)
        /\ TopicNames(db) = TopicNames(prev)
        /\ Memberships(db) = Memberships(prev)
        /\ Len(db.entries) = Len(prev.entries)
        /\ Len(db.topics) = Len(prev.topics)
        /\ Len(db.entry_topics) = Len(prev.entry_topics)

\* a second run over two parsed documents with topics has returned
C1_Witness ==
    /\ Returned /\ unchanged /\ AllParse /\ DistinctSlugs
    /\ outcome = "committed"
    /\ Len(db.entries) = 2
    /\ Len(db.entry_topics) >= 2

(***************************************************************************)
(* C2. Slug uniqueness: in every reachable state of the store, committed   *)
(* or inside the builder's transaction, no two rows of entries share a     *)
(* slug, also when several source files normalize to the same slug.        *)
(***************************************************************************)
UniqueSlugs(d) ==
    \A i, j \in 1..Len(d.entries) :
        i # j => d.entries[i].slug # d.entries[j].slug

C2_SlugUniqueness == UniqueSlugs(db) /\ UniqueSlugs(tx.store)

\* two files with the same slug were discovered and the run has committed
C2_Witness ==
    /\ Returned /\ outcome = "committed"
    /\ Len(all_files) = 2
    /\ ~PrepareRaises(fs[all_files[1]]) /\ ~PrepareRaises(fs[all_files[2]])
    /\ Normalize(all_files[1], fs[all_files[1]]).slug
         = Normalize(all_files[2], fs[all_files[2]]).slug
    /\ Len(db.entries) = 1

(***************************************************************************)
(* C3. Topic association integrity: after build_database, for every stored *)
(* entry, topics_raw equals the comma-joined set of the topic names linked *)
(* to the entry through entry_topics (in some order of that set).          *)
(***************************************************************************)
JoinedSets(names) == {Join(o, <<",">>) : o \in Orders(names)}

C3_TopicsRawMatchesLinks ==
    (Returned /\ outcome = "committed") =>
        \A e \in Range(db.entries) : e.topics_raw \in JoinedSets(LinkedNames(db, e))

(***************************************************************************)
(* C4. Search/store consistency: after every returned build_database call  *)
(* (files skipped, zero files, or all ingested) entry_fts has as many rows *)
(* as entries, and each index row carries the title, content and           *)
(* topics_raw of the entry with the same id.                               *)
(***************************************************************************)
C4_SearchMirrorsEntries ==
    Returned =>
        /\ Len(db.entry_fts) = Len(db.entries)
        /\ \A e \in Range(db.entries) : \E f \in Range(db.entry_fts) :
               /\ f.rowid = e.id
               /\ f.title = e.title
               /\ f.content = e.content
               /\ f.topics = e.topics_raw
        /\ \A f \in Range(db.entry_fts) : \E e \in Range(db.entries) : f.rowid = e.id

\* a run that skipped one file and ingested another has committed
C4_Witness ==
    /\ Returned /\ outcome = "committed"
    /\ failed # {}
    /\ Len(db.entries) >= 1
    /\ Len(db.entry_fts) >= 1

(***************************************************************************)
(* C5. Full replace: after a build_database call returns, entries, topics, *)
(* entry_topics and entry_fts hold only rows derived from the source files *)
(* discovered in that call; no row of an earlier run survives.             *)
(***************************************************************************)
C5_FullReplace ==
    Returned =>
        /\ \A e \in Range(db.entries) : \E p \in Ingested : Doc(e) = DocOf(p)
        /\ \A t \in Range(db.topics) : \E p \in Ingested : t.name \in NamesOf(p)
        /\ \A l \in Range(db.entry_topics) :
               \E e \in Range(db.entries), t \in Range(db.topics), p \in Ingested :
                   /\ l.entry_id = e.id /\ l.topic_id = t.id
                   /\ Doc(e) = DocOf(p) /\ t.name \in NamesOf(p)
        /\ \A f \in Range(db.entry_fts) : \E e \in Range(db.entries) :
               /\ f.rowid = e.id /\ f.title = e.title
               /\ f.content = e.content /\ f.topics = e.topics_raw

\* the earlier run left a document and a topic that the new sources lack,
\* and the new run has committed other rows
C5_Witness ==
    /\ Returned /\ outcome = "committed"
    /\ Len(db.entries) >= 1
    /\ \E e \in Range(prev.entries) : Doc(e) \notin Docs(db)
    /\ \E t \in Range(prev.topics) : t.name \notin TopicNames(db)

(***************************************************************************)
(* C6. Per-file error isolation: a source file whose processing raises is  *)
(* skipped without aborting the run: the run commits, and every other      *)
(* discovered file is present in entries when the run ends.                *)
(***************************************************************************)
C6_ErrorIsolation ==
    (pc = "idle" /\ outcome \notin {"none", "running"} /\ ~dirty
        /\ all_files # <<>>) =>
        /\ outcome = "committed"
        /\ \A p \in Range(all_files) :
               PrepareRaises(fs[p]) => p \in failed
        /\ \A p \in Ingested : DocOf(p) \in Docs(db)

\* the first file raised and the file after it was ingested
C6_Witness ==
    /\ Returned /\ outcome = "committed"
    /\ Len(all_files) = 2
    /\ PrepareRaises(fs[all_files[1]])
    /\ all_files[1] \in failed
    /\ all_files[2] \notin failed
    /\ DocOf(all_files[2]) \in Docs(db)

(***************************************************************************)
(* C7. Catastrophic failure preserves the store: when the content root is  *)
(* missing, build_database aborts and every entries, topics, entry_topics  *)
(* and entry_fts row that existed before the call still exists after it.   *)
(***************************************************************************)
RowsKept(old, new) ==
    /\ Range(old.entries) \subseteq Range(new.entries)
    /\ Range(old.topics) \subseteq Range(new.topics)
    /\ Range(old.entry_topics) \subseteq Range(new.entry_topics)
    /\ Range(old.entry_fts) \subseteq Range(new.entry_fts)

C7_AbortPreservesStore ==
    (pc = "idle" /\ outcome = "no_content") => RowsKept(prev, db)

(***************************************************************************)
(* C8. Reader consistency: every state of til.db that a read on another    *)
(* connection can observe while build_database runs over a store left by a *)
(* previous rebuild is either the complete data of the previous rebuild or *)
(* the complete data of the new one.                                       *)
(***************************************************************************)
C8_ReaderConsistency ==
    (pc = "idle" /\ outcome = "committed" /\ prev.tables = Tables) =>
        seen \subseteq {prev, db}

(***************************************************************************)
(* C9. Single-flight rebuild: at most one execution of build_database is   *)
(* in progress at any time, over all interleavings of the watcher thread's *)
(* rebuild callback and the main thread's initial build.                   *)
(***************************************************************************)
C9_SingleFlight == ~(m_pc = "build" /\ w_pc = "rebuild")

(***************************************************************************)
(* C10. Deferred trigger: a .md modification event queued while a rebuild  *)
(* runs, or handled less than 2 seconds after the last rebuild started, is *)
(* not lost: once the handler is idle with no event left to handle, a      *)
(* rebuild has been invoked after every .md event.                         *)
(***************************************************************************)
C10_DeferredNotLost == (w_pc = "idle" /\ queue = <<>>) => ~unserved

(***************************************************************************)
(* C11. Debounce: when all the .md modification events raised so far fall  *)
(* within one 2-second window and have all been handled without delay      *)
(* (each as soon as the handler was free), they caused exactly one call of *)
(* the rebuild callback, however long the rebuild took.                    *)
(***************************************************************************)
C11_BurstRebuildsOnce ==
    (/\ w_pc = "idle" /\ queue = <<>>
     /\ burst.md >= 1
     /\ burst.last - burst.first < Debounce
     /\ ~burst.waited) => burst.calls = 1

(***************************************************************************)
(* C12. Rebuild exit code: rebuild_database.main returns 0 whenever the     *)
(* content root exists (zero files, skipped files, files with metadata     *)
(* problems included) and non-zero only when the content root is missing   *)
(* or the build raised.                                                    *)
(***************************************************************************)
C12_ExitCode ==
    r_pc = "done" => (exit_code = 0 <=> (content_exists /\ outcome # "raised"))

(***************************************************************************)
(* C14. Title fallback chain: the title stored for an ingested file is the *)
(* front matter title when one is given (verbatim, also when the body has  *)
(* a heading), else the text of the first body line starting with '# ',    *)
(* else the file name stem with '-' and '_' replaced by spaces, title      *)
(* cased.                                                                  *)
(***************************************************************************)
HeadingLines(body) ==
    SelectSeq(StrippedLines(body), LAMBDA l : StartsWith(l, HeadingPrefix))
HeadingText(l) == Strip(SubSeq(l, Len(HeadingPrefix) + 1, Len(l)))

ChainTitle(p, c) ==
    IF c.title # <<>> THEN c.title
    ELSE IF HeadingLines(c.body) # <<>>
            /\ HeadingText(Head(HeadingLines(c.body))) # <<>>
         THEN HeadingText(Head(HeadingLines(c.body)))
         ELSE TitleCase(Replace(Replace(Stem(p), "-", " "), "_", " "))

\* the row of entries that holds file p: its body and its filesystem time
RowOf(d, p) ==
    {e \in Range(d.entries) :
        e.content = fs[p].body /\ e.created_fs = CreatedFs(p)}

C14_TitleFallbackChain ==
    (Returned /\ outcome = "committed") =>
        \A p \in Ingested :
            /\ RowOf(db, p) # {}
            /\ \A e \in RowOf(db, p) : e.title = ChainTitle(p, fs[p])

\* a file with a front matter title and a heading, and a file with neither,
\* were ingested in one run
C14_Witness ==
    /\ Returned /\ outcome = "committed"
    /\ \E p, q \in Ingested :
        /\ fs[p].title # <<>> /\ HeadingLines(fs[p].body) # <<>>
        /\ fs[q].title = <<>> /\ HeadingLines(fs[q].body) = <<>>
        /\ \E e \in RowOf(db, p) : e.title = fs[p].title
        /\ \E e \in RowOf(db, q) : e.title = <<"N", " ", "B">>

(***************************************************************************)
(* C15. Date precedence: for every stored entry the effective creation     *)
(* value COALESCE(created_fm, created_fs) is never null; it is the front   *)
(* matter created value (else the date value) when the front matter gives  *)
(* one and created_fs otherwise, and created_fm is NULL exactly when the    *)
(* front matter gives a value for neither field.                           *)
(***************************************************************************)
C15_DatePrecedence ==
    (Returned /\ outcome = "committed") =>
        \A p \in Ingested : \A e \in RowOf(db, p) :
            LET c == fs[p]
            IN  /\ EffectiveCreated(e) # Null
                /\ EffectiveCreated(e) =
                       IF Truthy(c.created) THEN DateText(c.created)
                       ELSE IF Truthy(c.date) THEN DateText(c.date)
                       ELSE CreatedFs(p)
                /\ e.created_fm = Null <=> (~Truthy(c.created) /\ ~Truthy(c.date))

(***************************************************************************)
(* C16. Same slugging rule: for every page name P (written as titles are:  *)
(* a letter at both ends), the slug that convert_wikilinks places in the   *)
(* href of [[P]] equals the slug build_database derives for a document     *)
(* whose title is P and that has no front matter slug.                     *)
(***************************************************************************)
\* the text between '/note/' and the closing '/' of the href
HrefSlug(html) ==
    LET i == CHOOSE k \in 1..Len(html) : html[k] = "/note/"
        j == CHOOSE k \in 1..Len(html) : html[k] = HrefClose[1]
    IN  SubSeq(html, i + 1, j - 1)

C16_SameSlugRule ==
    (/\ link_html # Unset /\ entry_slug # Unset
     /\ IsLetter(link_text[1]) /\ IsLetter(link_text[Len(link_text)]))
        => HrefSlug(link_html) = entry_slug

(***************************************************************************)
(* C13. Listing page: for every page request (any page, either order, a    *)
(* page without rows included) the index route returns successfully one    *)
(* summary per row of the page query, in the query's order, each with its  *)
(* own preview and was_modified flag, with the total count and the         *)
(* has_next / has_prev flags.                                              *)
(***************************************************************************)
C13_ListingPage ==
    (request.route = "index") =>
        /\ response.status = 200
        /\ \E rows \in PageRows({[e |-> e] : e \in Range(db.entries)},
                                request.page, request.order) :
               response.entries =
                   [i \in 1..Len(rows) |-> Summary(rows[i], TopicPreview(rows[i]))]
        /\ response.count = Len(db.entries)
        /\ response.has_next = (request.page * PER_PAGE < Len(db.entries))
        /\ response.has_prev = (request.page > 1)

(***************************************************************************)
(* C17. Not-found distinction: the topic route answers 404 exactly when no *)
(* topics row has the requested name, the entry route exactly when no      *)
(* entries row has the requested slug; for an existing topic a page beyond *)
(* the last one is a successful empty page.                                *)
(***************************************************************************)
C17_NotFoundDistinction ==
    /\ (request.route = "topic") =>
          /\ response.status = 404 <=> request.topic \notin TopicNames(db)
          /\ request.topic \in TopicNames(db) => response.status = 200
          /\ (/\ request.topic \in TopicNames(db)
              /\ (request.page - 1) * PER_PAGE >= Cardinality(TopicJoin(db, request.topic)))
                 => response.entries = <<>>
    /\ (request.route = "entry") =>
          /\ response.status = 404 <=> ~\E e \in Range(db.entries) : e.slug = request.slug
          /\ (\E e \in Range(db.entries) : e.slug = request.slug) => response.status = 200

\* an existing topic was asked for its second page, which has no row
C17_Witness ==
    /\ request.route = "topic"
    /\ request.page = 2
    /\ request.topic \in TopicNames(db)
    /\ Cardinality(TopicJoin(db, request.topic)) >= 1
    /\ response.status = 200
    /\ response.entries = <<>>

(***************************************************************************)
(* C18. Related documents: for every existing entry E the related list of  *)
(* the entry route holds only entries other than E that share a topic with *)
(* E, none twice, in ascending title order, at most 5 of them: the first 5 *)
(* by title of all the entries that share a topic with E.                  *)
(***************************************************************************)
Sharing(d, e) ==
    {o \in Range(d.entries) :
        o.id # e.id /\ LinkedNames(d, o) \cap LinkedNames(d, e) # {}}

C18_RelatedDocuments ==
    (request.route = "entry" /\ response.status = 200) =>
        LET e == CHOOSE e \in Range(db.entries) : e.slug = request.slug
            related == response.related
            ids == {related[i].id : i \in 1..Len(related)}
        IN  /\ \A i \in 1..Len(related) :
                   \E o \in Sharing(db, e) :
                       /\ o.id = related[i].id
                       /\ o.slug = related[i].slug
                       /\ o.title = related[i].title
            /\ \A i, j \in 1..Len(related) : i # j => related[i].id # related[j].id
            /\ \A i, j \in 1..Len(related) :
                   i < j => ~TextLess(related[j].title, related[i].title)
            /\ Len(related) <= 5
            /\ Len(related) = 5 \/ Len(related) = Cardinality(Sharing(db, e))
            /\ \A o \in Sharing(db, e) : \A i \in 1..Len(related) :
                   o.id \notin ids => ~TextLess(o.title, related[i].title)

\* six entries share a topic with the entry asked for, five are listed
C18_Witness ==
    /\ request.route = "entry"
    /\ response.status = 200
    /\ Len(response.related) = 5
    /\ \E e \in Range(db.entries) :
           e.slug = request.slug /\ Cardinality(Sharing(db, e)) = 6

(***************************************************************************)
(* C19. Topic cloud: get_topic_cloud returns exactly one row per topic, in *)
(* ascending name order, and the count of a topic is the number of         *)
(* distinct documents associated with it, also when a document names the   *)
(* same topic more than once.                                              *)
(***************************************************************************)
DocumentsOf(d, name) == {e \in Range(d.entries) : name \in LinkedNames(d, e)}

C19_TopicCloud ==
    (request.route \in {"topic", "entry"} /\ response.status = 200) =>
        LET cloud == response.topic_cloud
        IN  /\ {cloud[i].topic : i \in 1..Len(cloud)} = TopicNames(db)
            /\ Len(cloud) = Cardinality(TopicNames(db))
            /\ \A i, j \in 1..Len(cloud) :
                   i < j => TextLess(cloud[i].topic, cloud[j].topic)
            /\ \A i \in 1..Len(cloud) :
                   cloud[i].count = Cardinality(DocumentsOf(db, cloud[i].topic))

(***************************************************************************)
(* C20. Search query error: a search request whose non-empty query text is *)
(* malformed full-text syntax gets a result that reports the error to the  *)
(* user, not a failure of the route; an empty query redirects to the       *)
(* index.                                                                  *)
(***************************************************************************)
C20_SearchQueryError ==
    (request.route = "search") =>
        /\ Strip(request.q) = <<>> => response = RedirectToIndex
        /\ (Strip(request.q) # <<>> /\ FtsSyntaxError(Strip(request.q)))
               => response.status # 500

\* the store the committed call of Spec leaves is BuildStore of its files
BuildStoreAgrees ==
    (Returned /\ outcome = "committed") => db = BuildStore(fs, all_files)

(***************************************************************************)
(* C21. Preview cut rule (topic route and static builder): the text a      *)
(* preview starts from is whitespace-collapsed.  A text of at most 200     *)
(* characters is its own preview, with nothing appended; a longer text is  *)
(* cut at the last space of its first 200 characters when that space lies  *)
(* beyond index 140, and after 200 characters otherwise, and the ellipsis  *)
(* is appended.  No preview is longer than 203 characters, and the preview *)
(* of a text longer than 200 characters ends with the ellipsis.            *)
(***************************************************************************)
Collapsed(e) == CleanWhitespace(PreviewSource(e))
EndsWithEllipsis(t) == Len(t) >= 3 /\ SubSeq(t, Len(t) - 2, Len(t)) = Ellipsis
\* the indices (from 0) of the spaces within the first 200 characters
SpacesInBudget(t) == {k \in 0..199 : k < Len(t) /\ t[k + 1] = " "}
CutPoint(t) ==
    IF \E k \in SpacesInBudget(t) : k > 140
    THEN CHOOSE k \in SpacesInBudget(t) : \A j \in SpacesInBudget(t) : j <= k
    ELSE 200
FollowsCutRule(e, preview) ==
    LET t == Collapsed(e)
    IN  /\ Len(t) <= 200 => preview = t
        /\ Len(t) > 200 => preview = SubSeq(t, 1, CutPoint(t)) \o Ellipsis
        /\ Len(preview) <= 203
PreviewsOf(kind) ==
    {[row |-> row_page[i], preview |-> processed_entries[kind].entries[i].preview] :
        i \in 1..Len(processed_entries[kind].entries)}
CutPreviews == PreviewsOf("topic") \cup PreviewsOf("builder")

C21_PreviewCutRule ==
    \A p \in CutPreviews :
        /\ FollowsCutRule(p.row, p.preview)
        /\ Len(Collapsed(p.row)) > 200 => EndsWithEllipsis(p.preview)

\* C21, witness: the topic route has cut a text at a space and the static
\* builder has cut one after 200 characters
C21_Witness ==
    /\ \E p \in PreviewsOf("topic") :
           Len(Collapsed(p.row)) > 200 /\ Len(p.preview) < 203
    /\ \E p \in PreviewsOf("builder") :
           Len(Collapsed(p.row)) > 200 /\ Len(p.preview) = 203

\* C21 as stated: the cut rule, and a preview ends with the ellipsis exactly
\* when the text was truncated
C21_EllipsisIffTruncated ==
    \A p \in CutPreviews :
        /\ FollowsCutRule(p.row, p.preview)
        /\ EndsWithEllipsis(p.preview) <=> Len(Collapsed(p.row)) > 200

(***************************************************************************)
(* C22. Preview hard truncation: every 250-character plain-text body that  *)
(* is whitespace-collapsed as it stands and has no space beyond index 140  *)
(* within its first 200 characters is previewed as exactly its first 200   *)
(* characters followed by the ellipsis.                                    *)
(***************************************************************************)
BodyText(e) == Text(e.content)
HardCut(t) == SubSeq(t, 1, 200) \o Ellipsis
NoLateSpace(t) == \A k \in 141..199 : t[k + 1] # " "

C22_HardTruncation ==
    \A p \in CutPreviews :
        (/\ Len(BodyText(p.row)) = 250
         /\ CleanWhitespace(BodyText(p.row)) = BodyText(p.row)
         /\ NoLateSpace(BodyText(p.row)))
            => p.preview = HardCut(BodyText(p.row))

\* C22, witness: the static builder has cut a 250-character body that has an
\* early space and no late one after 200 characters
C22_Witness ==
    \E p \in PreviewsOf("builder") :
        /\ Len(BodyText(p.row)) = 250
        /\ CleanWhitespace(BodyText(p.row)) = BodyText(p.row)
        /\ NoLateSpace(BodyText(p.row))
        /\ \E i \in 1..139 : BodyText(p.row)[i] = " "
        /\ p.preview = HardCut(BodyText(p.row))

\* C22 as stated: every 250-character plain-text body that has no space
\* before position 140 is previewed as its first 200 characters followed by
\* the ellipsis
C22_NoSpaceBefore140 ==
    \A p \in CutPreviews :
        (/\ Len(BodyText(p.row)) = 250
         /\ \A i \in 1..139 : BodyText(p.row)[i] # " ")
            => p.preview = HardCut(BodyText(p.row))

(***************************************************************************)
(* C23. Zero files: when the content root exists but holds no markdown     *)
(* file, build_database ends without error and leaves an empty store with  *)
(* the full schema present: entries, topics, entry_topics and entry_fts    *)
(* exist and have no row, whatever the store held before.                  *)
(***************************************************************************)
C23_ZeroFiles ==
    (/\ pc = "idle" /\ outcome \notin {"none", "running"} /\ ~dirty
     /\ content_exists /\ DOMAIN fs = {})
        => /\ outcome = "no_files"
           /\ db.tables = Tables
           /\ db.entries = <<>> /\ db.topics = <<>>
           /\ db.entry_topics = <<>> /\ db.entry_fts = <<>>

\* C23, witness: a call on a content root without files has returned, and
\* the store it began on held a document, a topic, a link and an index row
C23_Witness ==
    /\ pc = "idle" /\ outcome = "no_files" /\ ~dirty
    /\ content_exists /\ DOMAIN fs = {}
    /\ prev.entries # <<>> /\ prev.topics # <<>>
    /\ prev.entry_topics # <<>> /\ prev.entry_fts # <<>>

(***************************************************************************)
(* C24. URL-safe slugs: every slug stored by build_database, whether taken *)
(* from front matter or derived from the title, is non-empty and URL-safe: *)
(* lowercase, made only of word characters and hyphens, with no whitespace *)
(* and no leading or trailing hyphen.                                      *)
(***************************************************************************)
UrlSafe(slug) ==
    /\ slug # <<>>
    /\ \A i \in 1..Len(slug) :
           /\ IsWordChar(slug[i]) \/ slug[i] = "-"
           /\ slug[i] \notin DOMAIN ToLower
    /\ slug[1] # "-"
    /\ slug[Len(slug)] # "-"

C24_UrlSafeSlugs ==
    \A e \in Range(View.entries) : UrlSafe(e.slug)

(***************************************************************************)
(* C25. Deterministic collision resolution: when two or more source files  *)
(* normalize to the same slug, the store produced by build_database (which *)
(* file's document is kept under that slug, and the resulting topics and   *)
(* associations) is the same for every order in which the files are        *)
(* discovered.                                                             *)
(***************************************************************************)
SlugsCollide ==
    \E p, q \in DOMAIN fs :
        /\ p # q
        /\ ~PrepareRaises(fs[p]) /\ ~PrepareRaises(fs[q])
        /\ Normalize(p, fs[p]).slug = Normalize(q, fs[q]).slug

C25_OrderIndependent ==
    (Returned /\ outcome = "committed" /\ SlugsCollide) =>
        \A order \in Orders(DOMAIN fs) :
            /\ Docs(BuildStore(fs, order)) = Docs(db)
            /\ TopicNames(BuildStore(fs, order)) = TopicNames(db)
            /\ Memberships(BuildStore(fs, order)) = Memberships(db)

(***************************************************************************)
(* C28. Slug collision policy: within one build_database run, when a       *)
(* file's slug equals the slug of an entry already inserted in that run,   *)
(* the first-processed file wins: the file is skipped, the earlier entry   *)
(* row and its associations are unchanged and nothing of the later file    *)
(* (title, content, dates, topics) is written to the store.                *)
(***************************************************************************)
SlugOf(p) == Normalize(p, fs[p]).slug
Collides(p) ==
    /\ ~PrepareRaises(fs[p])
    /\ \E e \in Range(View.entries) : e.slug = SlugOf(p)

C28_FirstProcessedWins ==
    [][(pc = "files" /\ Collides(all_files[idx]))
          => (View' = View /\ all_files[idx] \in failed')]_vars

\* C28, witness: the second file was skipped for the slug of the first; its
\* document differs from the one kept and one of its topics is not stored
C28_Witness ==
    /\ pc = "commit"
    /\ Len(all_files) = 2
    /\ all_files[2] \in failed
    /\ ~PrepareRaises(fs[all_files[2]])
    /\ \E e \in Range(View.entries) :
           /\ e.slug = SlugOf(all_files[2])
           /\ Doc(e) = DocOf(all_files[1])
           /\ Doc(e) # DocOf(all_files[2])
    /\ ~(NamesOf(all_files[2]) \subseteq TopicNames(View))

(***************************************************************************)
(* C29. Per-file atomicity: every file that build_database reports as      *)
(* failed contributes no row at all (no entries row, no new topics row, no *)
(* entry_topics row), and the rows written for previously processed files  *)
(* are left unchanged; no entry is left with a partial topic set.          *)
(***************************************************************************)
C29_PerFileAtomicity ==
    /\ [][(pc = "files" /\ all_files[idx] \in failed') => View' = View]_vars
    /\ [](pc \in {"files", "fts", "commit"} =>
            \A e \in Range(View.entries) :
                \E p \in Ingested :
                    Doc(e) = DocOf(p) /\ LinkedNames(View, e) = NamesOf(p))

\* C29, witness: the first file was ingested with two topics, the second
\* file raised, and the store holds the rows of the first file only
C29_Witness ==
    /\ pc = "commit"
    /\ Len(all_files) = 2
    /\ all_files[1] \notin failed
    /\ all_files[2] \in failed
    /\ PrepareRaises(fs[all_files[2]])
    /\ Len(View.entries) = 1
    /\ Cardinality(NamesOf(all_files[1])) = 2
    /\ Len(View.entry_topics) = 2

(***************************************************************************)
(* C30. Validation gate: in rebuild_database.main, if                      *)
(* validate_content_files reports any issue (or the content directory is   *)
(* missing), main returns 1 without removing til.db and without calling    *)
(* build_database, so the existing store is unchanged; til.db is removed   *)
(* and build_database is called only after validation has passed, in that  *)
(* order.                                                                  *)
(***************************************************************************)
\* the store the script was started on
StoreAtStart(had_file) == IF had_file THEN OldStore ELSE EmptyStore

C30_ValidationGate ==
    /\ [](~ValidateContentFiles =>
            /\ r_pc \in {"start", "done"}
            /\ outcome = "none" /\ pc = "idle"
            /\ db = StoreAtStart(db_file)
            /\ r_pc = "done" => exit_code = 1)
    /\ [][/\ db_file' # db_file => (r_pc = "remove" /\ ~db_file')
              \/ (r_pc \in {"import", "call"} /\ db_file')
          /\ (pc = "idle" /\ pc' # "idle") => r_pc \in {"import", "call"}
          /\ r_pc' = "remove" => (r_pc = "start" /\ ValidateContentFiles)]_vars

\* C30, witness: validation failed on an existing til.db and main returned
C30_Witness ==
    /\ r_pc = "done"
    /\ ~ValidateContentFiles
    /\ content_exists /\ DOMAIN fs # {}
    /\ db_file /\ db = OldStore /\ db.entries # <<>>
    /\ exit_code = 1

(***************************************************************************)
(* C26. Static builder equals the dynamic app: for every page of entry     *)
(* rows, TILStaticSiteBuilder.process_entries_for_preview yields the same  *)
(* list of processed entries (same length and order, same preview and      *)
(* was_modified for each entry) as the entry processing of the index route *)
(* in app.py for the same rows.                                            *)
(***************************************************************************)
C26_BuilderMatchesIndex ==
    (processed_entries.builder # NotRun /\ processed_entries.index # NotRun) =>
        /\ processed_entries.index.state = "returned"
        /\ Len(processed_entries.index.entries) = Len(processed_entries.builder.entries)
        /\ \A i \in 1..Len(processed_entries.builder.entries) :
               /\ processed_entries.index.entries[i].id
                      = processed_entries.builder.entries[i].id
               /\ processed_entries.index.entries[i].preview
                      = processed_entries.builder.entries[i].preview
               /\ processed_entries.index.entries[i].was_modified
                      = processed_entries.builder.entries[i].was_modified

(***************************************************************************)
(* C27. Deploy sequence: til_deploy.main runs its steps strictly in the    *)
(* order environment check, optional Claude processing, database build,    *)
(* static site generation, change check, git add, git commit, git push; a  *)
(* failure of the environment check, database build, static generation,    *)
(* git add or git commit makes main return 1 with no later step executed   *)
(* (so a push never happens unless every earlier mandatory step succeeded  *)
(* and changes were detected), whereas a failure of Claude processing does *)
(* not stop the later steps.                                               *)
(***************************************************************************)
StepOrder ==
    <<"environment", "claude", "database", "static", "changes", "add",
      "commit", "push">>
Rank(step) == CHOOSE r \in 1..Len(StepOrder) : StepOrder[r] = step
MustSucceed == {"environment", "database", "static", "add", "commit"}
StepsRun == {steps[i].step : i \in 1..Len(steps)}

C27_DeploySequence ==
    /\ \A i, j \in 1..Len(steps) :
           i < j => Rank(steps[i].step) < Rank(steps[j].step)
    /\ \A i \in 1..Len(steps) :
           \A r \in 1..(Rank(steps[i].step) - 1) :
               StepOrder[r] # "claude" =>
                   \E j \in 1..(i - 1) : steps[j] = [step |-> StepOrder[r], ok |-> TRUE]
    /\ \A i \in 1..Len(steps) :
           (steps[i].step \in MustSucceed /\ ~steps[i].ok) =>
               /\ i = Len(steps)
               /\ d_pc = "done"
               /\ deploy_code = 1
    /\ (d_pc = "done" /\ [step |-> "claude", ok |-> FALSE] \in Range(steps)) =>
           "database" \in StepsRun

\* C27, witness: Claude processing failed, every later step ran and the
\* push succeeded
C27_Witness ==
    /\ d_pc = "done"
    /\ deploy_code = 0
    /\ Len(steps) = 8
    /\ steps[2] = [step |-> "claude", ok |-> FALSE]
    /\ steps[8] = [step |-> "push", ok |-> TRUE]

====
